---------------------------- MODULE Spec2Model ----------------------------
(***************************************************************************)
(* A model of the PyLox tree-walking interpreter: the driver Lox.run and   *)
(* its four stages (Scanner, Parser, Resolver, Interpreter) together with  *)
(* the runtime object model (Environment, LoxFunction, LoxClass,           *)
(* LoxInstance) and the shared error-reporting channel.                    *)
(*                                                                         *)
(* Conventions.  A source text is a sequence of one-character strings.    *)
(* Python indices are kept 0-based as in the code (source[i] of the code   *)
(* is src[i+1] here).  A Python exception is a value of the field "sig"    *)
(* of a result record: "error" is RuntimeErr, "return" is Return, "crash" *)
(* is any other exception of the host (NameError, AttributeError, ...).   *)
(* Lox numbers are Python floats; they are modelled as normalised          *)
(* rationals n/d, exact on the small values the model uses.                *)
(***************************************************************************)
EXTENDS Integers, Sequences, FiniteSets, TLC

VARIABLES
    pc,                 \* position of Lox.run_file / Lox.run
    source,             \* the text handed to Lox.run
    tokens,             \* result of Scanner.scan_tokens
    statements,         \* result of Parser.parse
    parser_errors,      \* Parser.errors
    had_err,            \* RuntimeError.had_err (module global)
    Lox_had_error,      \* Lox.had_error (class attribute)
    Lox_had_runtime_error, \* Lox.had_runtime_error (class attribute)
    stderr,             \* lines written by RuntimeError.report
    interp,             \* the Interpreter object and the heap it reaches
    ip,                 \* index of the next statement of Interpreter.interpret
    exit_code           \* the process's exit status (-1 while running)

vars == <<pc, source, tokens, statements, parser_errors, had_err, Lox_had_error,
          Lox_had_runtime_error, stderr, interp, ip, exit_code>>

---------------------------------------------------------------------------
(* Runtime values: nil, bool, num (n/d), str, fn, class, inst.  One record *)
(* shape for all of them; n is the numerator, the truth value (0/1) or the *)
(* heap index, d the denominator, s the characters of a string.           *)

Nil == [t |-> "nil", n |-> 0, d |-> 1, s |-> <<>>]
Bool(b) == [t |-> "bool", n |-> IF b THEN 1 ELSE 0, d |-> 1, s |-> <<>>]
Str(chars) == [t |-> "str", n |-> 0, d |-> 1, s |-> chars]
FnVal(id) == [t |-> "fn", n |-> id, d |-> 1, s |-> <<>>]
ClassVal(id) == [t |-> "class", n |-> id, d |-> 1, s |-> <<>>]
InstVal(id) == [t |-> "inst", n |-> id, d |-> 1, s |-> <<>>]

Abs(x) == IF x < 0 THEN -x ELSE x

\* The loops of the code over tokens and statements are evaluated by halves
\* (2^k turns as two runs of 2^(k-1) turns), and a run stops as soon as the
\* loop's condition fails; turns(n) is the least k with 2^k >= n.
RECURSIVE turns(_)
turns(n) == IF n <= 1 THEN 0 ELSE 1 + turns((n + 1) \div 2)

\* Python evaluates an argument before the call it is passed to; TLC
\* evaluates it at its first use inside the callee.  eager(x) holds of every
\* x, and as a guard it has x evaluated where it stands.
eager(x) == x = x

RECURSIVE GCD(_, _)
GCD(a, b) == IF b = 0 THEN a ELSE GCD(b, a % b)

Num(n, d) ==
    LET g == GCD(Abs(n), Abs(d))
        sgn == IF d < 0 THEN -1 ELSE 1
    IN [t |-> "num", n |-> sgn * (n \div g), d |-> sgn * (d \div g), s |-> <<>>]

---------------------------------------------------------------------------
(* RuntimeError.py: the reporting channel.  A line of stderr is the record *)
(* [kind, line, where, msg]; kind names the stage that called error() and  *)
(* is not part of the text written.                                        *)

\* A message: its text, with the name or the two numbers an f-string puts in it
Msg(text) == [text |-> text, name |-> <<>>, n1 |-> 0, n2 |-> 0]
MsgName(text, name) == [text |-> text, name |-> name, n1 |-> 0, n2 |-> 0]
MsgCount(text, n1, n2) == [text |-> text, name |-> <<>>, n1 |-> n1, n2 |-> n2]

report(kind, line, where, message) ==
    [kind |-> kind, line |-> line, where |-> where, msg |-> message]

\* error(line, token, msg): token is NoToken when the code passes None
NoToken == [type |-> "NONE", lexeme |-> <<>>, literal |-> Nil, line |-> 0]

error(kind, line, token, msg) ==
    IF token.type = "NONE" THEN report(kind, line, <<>>, msg)
    ELSE IF token.type = "EOF" THEN report(kind, token.line, <<" at end">>, msg)
    ELSE report(kind, token.line, <<" at ">> \o token.lexeme, msg)

---------------------------------------------------------------------------
(* Scanner.py *)

Digits == {"0", "1", "2", "3", "4", "5", "6", "7", "8", "9"}
Letters == {"a", "b", "c", "d", "e", "f", "g", "h", "i", "j", "k", "l", "m",
            "n", "o", "p", "q", "r", "s", "t", "u", "v", "w", "x", "y", "z",
            "A", "B", "C", "D", "E", "F", "G", "H", "I", "J", "K", "L", "M",
            "N", "O", "P", "Q", "R", "S", "T", "U", "V", "W", "X", "Y", "Z"}

\* str.isdigit() also holds of characters that are digits without being
\* decimal ones, such as the superscript two, which float() does not accept
OtherDigits == {"²"}

is_digit(c) == c \in Digits \cup OtherDigits
is_alpha(c) == c \in Letters \/ c = "_"
is_alphanumeric(c) == is_alpha(c) \/ is_digit(c)

Token(type, lexeme, literal, line) ==
    [type |-> type, lexeme |-> lexeme, literal |-> literal, line |-> line]

Scanner(src) ==
    [start |-> 0, current |-> 0, line |-> 1, tokens |-> <<>>, reports |-> <<>>,
     raised |-> ""]

sc_is_at_end(src, sc) == sc.current >= Len(src)
sc_peek(src, sc) == IF sc_is_at_end(src, sc) THEN "" ELSE src[sc.current + 1]
peek_next(src, sc) ==
    IF sc.current + 1 >= Len(src) THEN "" ELSE src[sc.current + 2]
sc_advance(sc) == [sc EXCEPT !.current = @ + 1]

\* match(expected): the scanner after the call, and whether it matched
sc_match(src, sc, expected) ==
    IF sc_is_at_end(src, sc) \/ src[sc.current + 1] # expected
    THEN [sc |-> sc, m |-> FALSE]
    ELSE [sc |-> sc_advance(sc), m |-> TRUE]

add_token(src, sc, type, literal) ==
    [sc EXCEPT !.tokens =
        Append(@, Token(type, SubSeq(src, sc.start + 1, sc.current), literal, sc.line))]

DigitVal(c) ==
    CASE c = "0" -> 0 [] c = "1" -> 1 [] c = "2" -> 2 [] c = "3" -> 3
      [] c = "4" -> 4 [] c = "5" -> 5 [] c = "6" -> 6 [] c = "7" -> 7
      [] c = "8" -> 8 [] c = "9" -> 9

\* float(text) for a text of the shape digits [ "." digits ]
RECURSIVE float_acc(_, _, _, _, _)
float_acc(text, i, n, d, frac) ==
    IF i > Len(text) THEN Num(n, d)
    ELSE IF text[i] = "." THEN float_acc(text, i + 1, n, d, TRUE)
    ELSE float_acc(text, i + 1, 10 * n + DigitVal(text[i]),
                   IF frac THEN 10 * d ELSE d, frac)

float(text) == float_acc(text, 1, 0, 1, FALSE)

RECURSIVE skip_comment(_, _)
skip_comment(src, sc) ==
    IF sc_peek(src, sc) # "\n" /\ ~sc_is_at_end(src, sc)
    THEN skip_comment(src, sc_advance(sc))
    ELSE sc

RECURSIVE string_body(_, _)
string_body(src, sc) ==
    IF sc_peek(src, sc) # "\"" /\ ~sc_is_at_end(src, sc)
    THEN string_body(src, sc_advance(
            IF sc_peek(src, sc) = "\n" THEN [sc EXCEPT !.line = @ + 1] ELSE sc))
    ELSE sc

string(src, sc0) ==
    LET sc == string_body(src, sc0) IN
    IF sc_is_at_end(src, sc)
    THEN [sc EXCEPT !.reports =
            Append(@, error("lexical", sc.line, NoToken, Msg("Unterminated string.")))]
    ELSE LET closed == sc_advance(sc) IN
         add_token(src, closed, "STRING",
                   Str(SubSeq(src, closed.start + 2, closed.current - 1)))

RECURSIVE digits(_, _)
digits(src, sc) ==
    IF is_digit(sc_peek(src, sc)) THEN digits(src, sc_advance(sc)) ELSE sc

number(src, sc0) ==
    LET sc1 == digits(src, sc0)
        sc2 == IF sc_peek(src, sc1) = "." /\ is_digit(peek_next(src, sc1))
               THEN digits(src, sc_advance(sc1))
               ELSE sc1
    IN IF \E i \in sc2.start + 1 .. sc2.current : src[i] \in OtherDigits
       THEN [sc2 EXCEPT !.raised = "ValueError"]
       ELSE add_token(src, sc2, "NUMBER", float(SubSeq(src, sc2.start + 1, sc2.current)))

keywords(text) ==
    CASE text = <<"a", "n", "d">> -> "AND"
      [] text = <<"c", "l", "a", "s", "s">> -> "CLASS"
      [] text = <<"e", "l", "s", "e">> -> "ELSE"
      [] text = <<"f", "a", "l", "s", "e">> -> "FALSE"
      [] text = <<"f", "o", "r">> -> "FOR"
      [] text = <<"f", "u", "n">> -> "FUN"
      [] text = <<"i", "f">> -> "IF"
      [] text = <<"n", "i", "l">> -> "NIL"
      [] text = <<"o", "r">> -> "OR"
      [] text = <<"p", "r", "i", "n", "t">> -> "PRINT"
      [] text = <<"r", "e", "t", "u", "r", "n">> -> "RETURN"
      [] text = <<"s", "u", "p", "e", "r">> -> "SUPER"
      [] text = <<"t", "h", "i", "s">> -> "THIS"
      [] text = <<"t", "r", "u", "e">> -> "TRUE"
      [] text = <<"v", "a", "r">> -> "VAR"
      [] text = <<"w", "h", "i", "l", "e">> -> "WHILE"
      [] OTHER -> "IDENTIFIER"

RECURSIVE alphanumerics(_, _)
alphanumerics(src, sc) ==
    IF is_alphanumeric(sc_peek(src, sc)) THEN alphanumerics(src, sc_advance(sc)) ELSE sc

identifier(src, sc0) ==
    LET sc == alphanumerics(src, sc0) IN
    add_token(src, sc, keywords(SubSeq(src, sc.start + 1, sc.current)), Nil)

two_char(src, sc, two, one) ==
    LET r == sc_match(src, sc, "=") IN
    add_token(src, r.sc, IF r.m THEN two ELSE one, Nil)

scan_token(src, sc0) ==
    LET char == src[sc0.current + 1]
        sc == sc_advance(sc0)
    IN CASE char = "(" -> add_token(src, sc, "LEFT_PAREN", Nil)
         [] char = ")" -> add_token(src, sc, "RIGHT_PAREN", Nil)
         [] char = "{" -> add_token(src, sc, "LEFT_BRACE", Nil)
         [] char = "}" -> add_token(src, sc, "RIGHT_BRACE", Nil)
         [] char = "," -> add_token(src, sc, "COMMA", Nil)
         [] char = "." -> add_token(src, sc, "DOT", Nil)
         [] char = "-" -> add_token(src, sc, "MINUS", Nil)
         [] char = "+" -> add_token(src, sc, "PLUS", Nil)
         [] char = ";" -> add_token(src, sc, "SEMICOLON", Nil)
         [] char = "*" -> add_token(src, sc, "STAR", Nil)
         [] char = "!" -> two_char(src, sc, "BANG_EQUAL", "BANG")
         [] char = "=" -> two_char(src, sc, "EQUAL_EQUAL", "EQUAL")
         [] char = "<" -> two_char(src, sc, "LESS_EQUAL", "LESS")
         [] char = ">" -> two_char(src, sc, "GREATER_EQUAL", "GREATER")
         [] char = "/" ->
              LET r == sc_match(src, sc, "/") IN
              IF r.m THEN skip_comment(src, r.sc)
              ELSE add_token(src, r.sc, "SLASH", Nil)
         [] char \in {" ", "\r", "\t"} -> sc
         [] char = "\n" -> add_token(src, [sc EXCEPT !.line = @ + 1], "SEMICOLON", Nil)
         [] char = "\"" -> string(src, sc)
         [] is_digit(char) -> number(src, sc)
         [] is_alpha(char) -> identifier(src, sc)
         [] OTHER ->
              [sc EXCEPT !.reports =
                  Append(@, error("lexical", sc.line, NoToken, Msg("Unexpected character.")))]

\* the while loop of scan_tokens, at most 2^k turns of it
RECURSIVE scan_loop(_, _, _)
scan_loop(src, sc, k) ==
    IF sc_is_at_end(src, sc) \/ sc.raised # "" THEN sc
    ELSE IF k = 0 THEN scan_token(src, [sc EXCEPT !.start = sc.current])
    ELSE scan_loop(src, scan_loop(src, sc, k - 1), k - 1)

\* scan_tokens(): the scanner at its end; .tokens is the list returned,
\* unless .raised names an exception that left scan_tokens.
\* A turn of the loop consumes a character, so Len(src) turns reach the end.
scan_tokens(src) ==
    LET sc == scan_loop(src, Scanner(src), turns(Len(src))) IN
    IF sc.raised # "" THEN sc
    ELSE [sc EXCEPT !.tokens = Append(@, Token("EOF", <<>>, Nil, sc.line))]

---------------------------------------------------------------------------
(* expressions.py / statements.py: the AST node types.  A node is a record *)
(* whose field k is its class.  Python keys Interpreter.locals by object   *)
(* identity; a node that can be such a key carries that identity as uid,   *)
(* the index of the token it was built from.                               *)

NoneNode == [k |-> "None"]
Literal(value) == [k |-> "Literal", value |-> value]
Variable(name, uid) == [k |-> "Variable", name |-> name, uid |-> uid]
Assign(name, value, uid) == [k |-> "Assign", name |-> name, value |-> value, uid |-> uid]
Binary(k, left, operator, right) ==
    [k |-> k, left |-> left, operator |-> operator, right |-> right]
Function(name, params, body) ==
    [k |-> "Function", name |-> name, params |-> params, body |-> body]

---------------------------------------------------------------------------
(* Parser.py.  The parser object is p = [current, errors]; the token list  *)
(* is toks.  A parsing method returns [p, ok, node]: ok = FALSE is a       *)
(* raised ParseError, node the value returned (a token for consume).      *)

MaxArguments == 255

\* synced and calls are logs that no method reads: for each call of
\* synchronize() the position of the offending token and the position the
\* parser resumed at, for each call of declaration() the positions at which
\* it began and ended
Parser(toks) == [current |-> 0, errors |-> <<>>, synced |-> <<>>, calls |-> <<>>]
Ok(p, node) == [p |-> p, ok |-> TRUE, node |-> node]
ParseError(p) == [p |-> p, ok |-> FALSE, node |-> NoneNode]

p_peek(toks, p) == toks[p.current + 1]
p_is_at_end(toks, p) == p_peek(toks, p).type = "EOF"
\* tokens[current - 1]; index -1 is the last element of a Python list
p_previous(toks, p) == toks[IF p.current = 0 THEN Len(toks) ELSE p.current]
p_check(toks, p, type) ==
    IF p_is_at_end(toks, p) THEN FALSE ELSE p_peek(toks, p).type = type
p_advance(toks, p) ==
    IF ~p_is_at_end(toks, p) THEN [p EXCEPT !.current = @ + 1] ELSE p
p_match(toks, p, types) ==
    IF \E type \in types : p_check(toks, p, type)
    THEN [p |-> p_advance(toks, p), m |-> TRUE]
    ELSE [p |-> p, m |-> FALSE]

\* self.errors.append(f"[line {line}] {message}")
p_error(p, line, message) ==
    [p EXCEPT !.errors = Append(@, [line |-> line, msg |-> message])]

consume(toks, p, type, message) ==
    IF p_check(toks, p, type)
    THEN Ok(p_advance(toks, p), p_previous(toks, p_advance(toks, p)))
    ELSE ParseError(p_error(p, p_peek(toks, p).line, message))

consume_semicolon(toks, p, message) ==
    IF p_check(toks, p, "SEMICOLON") \/ p_check(toks, p, "EOF")
    THEN Ok(IF p_check(toks, p, "SEMICOLON") THEN p_advance(toks, p) ELSE p, NoneNode)
    ELSE ParseError(p_error(p, p_peek(toks, p).line, message))

\* a synchronize that looks for a boundary before it discards a token
synchronize_in_place(toks, p0) ==
    LET RECURSIVE loop(_)
        loop(p) ==
            IF p_is_at_end(toks, p) THEN p
            ELSE IF p_previous(toks, p).type = "SEMICOLON" THEN p
            ELSE IF p_peek(toks, p).type \in
                    {"CLASS", "FUN", "VAR", "FOR", "IF", "WHILE", "PRINT", "RETURN"}
                 THEN p
            ELSE loop(p_advance(toks, p))
    IN loop(p0)

synchronize(toks, p0) ==
    LET RECURSIVE loop(_)
        loop(p) ==
            IF p_is_at_end(toks, p) THEN p
            ELSE IF p_previous(toks, p).type = "SEMICOLON" THEN p
            ELSE IF p_peek(toks, p).type \in
                    {"CLASS", "FUN", "VAR", "FOR", "IF", "WHILE", "PRINT", "RETURN"}
                 THEN p
            ELSE loop(p_advance(toks, p))
    IN loop(p_advance(toks, p0))

\* self.<name>(): the call of the grammar method name, by which the methods
\* below call one another
RECURSIVE rule(_, _, _)

\* a primary that takes a SEMICOLON for an empty expression
primary_empty(toks, p) ==
    LET type == p_peek(toks, p).type
        a == p_advance(toks, p)
        e == rule("expression", toks, a)
        c == consume(toks, e.p, "RIGHT_PAREN", "Expect ')' after expression.")
    IN CASE type = "FALSE" -> Ok(a, Literal(Bool(FALSE)))
         [] type = "TRUE" -> Ok(a, Literal(Bool(TRUE)))
         [] type = "NIL" -> Ok(a, Literal(Nil))
         [] type \in {"NUMBER", "STRING"} -> Ok(a, Literal(p_previous(toks, a).literal))
         [] type = "THIS" ->
              Ok(a, [k |-> "This", keyword |-> p_previous(toks, a), uid |-> p.current])
         [] type = "IDENTIFIER" -> Ok(a, Variable(p_previous(toks, a), p.current))
         [] type = "LEFT_PAREN" /\ ~e.ok -> e
         [] type = "LEFT_PAREN" /\ ~c.ok -> ParseError(c.p)
         [] type = "LEFT_PAREN" -> Ok(c.p, [k |-> "Grouping", expression |-> e.node])
         [] type = "SEMICOLON" -> Ok(p, Literal(Nil))
         [] OTHER -> ParseError(p_error(p, p_peek(toks, p).line, "Expect expression."))

primary(toks, p) ==
    LET type == p_peek(toks, p).type
        a == p_advance(toks, p)
        e == rule("expression", toks, a)
        c == consume(toks, e.p, "RIGHT_PAREN", "Expect ')' after expression.")
    IN CASE type = "FALSE" -> Ok(a, Literal(Bool(FALSE)))
         [] type = "TRUE" -> Ok(a, Literal(Bool(TRUE)))
         [] type = "NIL" -> Ok(a, Literal(Nil))
         [] type \in {"NUMBER", "STRING"} -> Ok(a, Literal(p_previous(toks, a).literal))
         [] type = "THIS" ->
              Ok(a, [k |-> "This", keyword |-> p_previous(toks, a), uid |-> p.current])
         [] type = "IDENTIFIER" -> Ok(a, Variable(p_previous(toks, a), p.current))
         [] type = "LEFT_PAREN" /\ ~e.ok -> e
         [] type = "LEFT_PAREN" /\ ~c.ok -> ParseError(c.p)
         [] type = "LEFT_PAREN" -> Ok(c.p, [k |-> "Grouping", expression |-> e.node])
         [] OTHER -> ParseError(p_error(p, p_peek(toks, p).line, "Expect expression."))

\* the do-while loop of finish_call over the arguments that follow a comma
RECURSIVE arguments_loop(_, _, _)
arguments_loop(toks, p, arguments) ==
    LET m == p_match(toks, p, {"COMMA"})
        q == IF Len(arguments) >= MaxArguments
             THEN p_error(m.p, p_peek(toks, m.p).line, "Can't have more than 255 arguments.")
             ELSE m.p
        e == rule("expression", toks, q)
    IN CASE ~m.m -> Ok(p, arguments)
         [] ~e.ok -> e
         [] OTHER -> arguments_loop(toks, e.p, Append(arguments, e.node))

finish_call(toks, p0, callee) ==
    LET first == rule("expression", toks, p0)
        args == CASE p_check(toks, p0, "RIGHT_PAREN") -> Ok(p0, <<>>)
                  [] ~first.ok -> first
                  [] OTHER -> arguments_loop(toks, first.p, <<first.node>>)
        paren == consume(toks, args.p, "RIGHT_PAREN", "Expect ')' after arguments.")
    IN CASE ~args.ok -> ParseError(args.p)
         [] ~paren.ok -> paren
         [] OTHER -> Ok(paren.p, [k |-> "Call", callee |-> callee, paren |-> paren.node,
                                  arguments |-> args.node])

\* the while loop of call() over the calls and property accesses after expr
RECURSIVE call_loop(_, _, _)
call_loop(toks, p, expr) ==
    LET f == finish_call(toks, p_advance(toks, p), expr)
        name == consume(toks, p_advance(toks, p), "IDENTIFIER",
                        "Expect property name after '.'.")
    IN CASE p_check(toks, p, "LEFT_PAREN") /\ ~f.ok -> f
         [] p_check(toks, p, "LEFT_PAREN") -> call_loop(toks, f.p, f.node)
         [] p_check(toks, p, "DOT") /\ ~name.ok -> name
         [] p_check(toks, p, "DOT") ->
              call_loop(toks, name.p, [k |-> "Get", object |-> expr, name |-> name.node])
         [] OTHER -> Ok(p, expr)

call(toks, p0) ==
    LET first == rule("primary", toks, p0) IN
    CASE ~first.ok -> first
      [] OTHER -> call_loop(toks, first.p, first.node)

unary(toks, p) ==
    LET m == p_match(toks, p, {"BANG", "MINUS"})
        right == rule("unary", toks, m.p)
    IN CASE ~m.m -> rule("call", toks, p)
         [] ~right.ok -> right
         [] OTHER -> Ok(right.p, [k |-> "Unary", operator |-> p_previous(toks, m.p),
                                  right |-> right.node])

\* or_expr, and_expr, equality, comparison, term and factor are the levels 1
\* to 6: a while loop each, over the operators of the level, whose operands
\* are parsed by the method of the next level (unary after factor).
operators(level) ==
    CASE level = 1 -> {"OR"}
      [] level = 2 -> {"AND"}
      [] level = 3 -> {"BANG_EQUAL", "EQUAL_EQUAL"}
      [] level = 4 -> {"GREATER", "GREATER_EQUAL", "LESS", "LESS_EQUAL"}
      [] level = 5 -> {"MINUS", "PLUS"}
      [] level = 6 -> {"SLASH", "STAR"}
      [] OTHER -> {}

\* the method that parses the operands of a level
operand(level) ==
    CASE level = 1 -> "and_expr"
      [] level = 2 -> "equality"
      [] level = 3 -> "comparison"
      [] level = 4 -> "term"
      [] level = 5 -> "factor"
      [] OTHER -> "unary"

\* the while loop of a level: left is the expression built so far
RECURSIVE binary_loop(_, _, _)
binary_loop(toks, left, level) ==
    LET m == p_match(toks, left.p, operators(level))
        right == rule(operand(level), toks, m.p)
    IN CASE ~left.ok -> left
         [] ~m.m -> left
         [] ~right.ok -> right
         [] OTHER ->
              binary_loop(toks, Ok(right.p, Binary(IF level <= 2 THEN "Logical" ELSE "Binary",
                                                   left.node, p_previous(toks, m.p),
                                                   right.node)), level)

\* The method of a level starts by calling the method of the next level, and
\* so on down to unary(); then the loop of factor runs, then the loop of
\* term, up to the loop of the level called (level 0 has no operators, so
\* its loop returns what it is given).
binary_level(toks, p, level) ==
    LET from(l) == IF level <= l THEN l ELSE 0
        factor == binary_loop(toks, rule("unary", toks, p), 6)
        term == binary_loop(toks, factor, from(5))
        comparison == binary_loop(toks, term, from(4))
        equality == binary_loop(toks, comparison, from(3))
        and_expr == binary_loop(toks, equality, from(2))
    IN CASE eager(factor) /\ eager(term) /\ eager(comparison) /\ eager(equality) ->
              binary_loop(toks, and_expr, from(1))

or_expr(toks, p) == binary_level(toks, p, 1)

\* an assignment() that raises ParseError at an invalid target
assignment_raises(toks, p) ==
    LET expr == rule("or_expr", toks, p)
        m == p_match(toks, expr.p, {"EQUAL"})
        value == rule("assignment", toks, m.p)
    IN CASE ~expr.ok -> expr
         [] ~m.m -> expr
         [] ~value.ok -> value
         [] expr.node.k = "Variable" ->
              Ok(value.p, Assign(expr.node.name, value.node, expr.node.uid))
         [] expr.node.k = "Get" ->
              Ok(value.p, [k |-> "Set", object |-> expr.node.object,
                           name |-> expr.node.name, value |-> value.node])
         [] OTHER -> ParseError(p_error(value.p, p_previous(toks, m.p).line,
                                        "Invalid assignment target."))

assignment(toks, p) ==
    LET expr == rule("or_expr", toks, p)
        m == p_match(toks, expr.p, {"EQUAL"})
        equals == p_previous(toks, m.p)
        value == rule("assignment", toks, m.p)
    IN CASE ~expr.ok -> expr
         [] ~m.m -> expr
         [] ~value.ok -> value
         [] expr.node.k = "Variable" ->
              Ok(value.p, Assign(expr.node.name, value.node, expr.node.uid))
         [] expr.node.k = "Get" ->
              Ok(value.p, [k |-> "Set", object |-> expr.node.object,
                           name |-> expr.node.name, value |-> value.node])
         [] OTHER -> Ok(p_error(value.p, equals.line, "Invalid assignment target."),
                        expr.node)

expression(toks, p) == rule("assignment", toks, p)

expression_statement(toks, p) ==
    LET expr == rule("expression", toks, p)
        semi == consume_semicolon(toks, expr.p, "Expect ';' or newline after expression.")
    IN CASE ~expr.ok -> expr
         [] ~semi.ok -> semi
         [] OTHER -> Ok(semi.p, [k |-> "Expression", expression |-> expr.node])

print_statement(toks, p) ==
    LET value == rule("expression", toks, p)
        semi == consume_semicolon(toks, value.p, "Expect ';' or newline after value.")
    IN CASE ~value.ok -> value
         [] ~semi.ok -> semi
         [] OTHER -> Ok(semi.p, [k |-> "Print", expression |-> value.node])

return_statement(toks, p) ==
    LET keyword == p_previous(toks, p)
        value == IF ~p_check(toks, p, "SEMICOLON") /\ ~p_check(toks, p, "EOF")
                 THEN rule("expression", toks, p)
                 ELSE Ok(p, NoneNode)
        semi == consume_semicolon(toks, value.p, "Expect ';' or newline after return value.")
    IN CASE ~value.ok -> value
         [] ~semi.ok -> semi
         [] OTHER -> Ok(semi.p, [k |-> "Return", keyword |-> keyword, value |-> value.node])

var_declaration(toks, p) ==
    LET name == consume(toks, p, "IDENTIFIER", "Expect variable name.")
        m == p_match(toks, name.p, {"EQUAL"})
        initializer == IF m.m THEN rule("expression", toks, m.p) ELSE Ok(m.p, NoneNode)
        semi == consume_semicolon(toks, initializer.p,
                                  "Expect ';' or newline after variable declaration.")
    IN CASE ~name.ok -> name
         [] ~initializer.ok -> initializer
         [] ~semi.ok -> semi
         [] OTHER -> Ok(semi.p, [k |-> "Var", name |-> name.node,
                                 initializer |-> initializer.node])

if_statement(toks, p) ==
    LET lp == consume(toks, p, "LEFT_PAREN", "Expect '(' after 'if'.")
        condition == rule("expression", toks, lp.p)
        rp == consume(toks, condition.p, "RIGHT_PAREN", "Expect ')' after if condition.")
        then_branch == rule("statement", toks, rp.p)
        m == p_match(toks, then_branch.p, {"ELSE"})
        else_branch == IF m.m THEN rule("statement", toks, m.p) ELSE Ok(m.p, NoneNode)
    IN CASE ~lp.ok -> lp
         [] ~condition.ok -> condition
         [] ~rp.ok -> rp
         [] ~then_branch.ok -> then_branch
         [] ~else_branch.ok -> else_branch
         [] OTHER -> Ok(else_branch.p, [k |-> "If", condition |-> condition.node,
                                        then_branch |-> then_branch.node,
                                        else_branch |-> else_branch.node])

while_statement(toks, p) ==
    LET lp == consume(toks, p, "LEFT_PAREN", "Expect '(' after 'while'.")
        condition == rule("expression", toks, lp.p)
        rp == consume(toks, condition.p, "RIGHT_PAREN", "Expect ')' after condition.")
        body == rule("statement", toks, rp.p)
    IN CASE ~lp.ok -> lp
         [] ~condition.ok -> condition
         [] ~rp.ok -> rp
         [] ~body.ok -> body
         [] OTHER -> Ok(body.p, [k |-> "While", condition |-> condition.node,
                                 body |-> body.node])

for_statement(toks, p) ==
    LET lp == consume(toks, p, "LEFT_PAREN", "Expect '(' after 'for'.")
        mv == p_match(toks, lp.p, {"VAR"})
        ms == p_match(toks, lp.p, {"SEMICOLON"})
        initializer == CASE mv.m -> rule("var_declaration", toks, mv.p)
                         [] ~ms.m -> rule("expression_statement", toks, lp.p)
                         [] OTHER -> Ok(ms.p, NoneNode)
        condition == IF ~p_check(toks, initializer.p, "SEMICOLON")
                     THEN rule("expression", toks, initializer.p)
                     ELSE Ok(initializer.p, NoneNode)
        semi == consume(toks, condition.p, "SEMICOLON", "Expect ';' after loop condition.")
        increment == IF ~p_check(toks, semi.p, "RIGHT_PAREN")
                     THEN rule("expression", toks, semi.p)
                     ELSE Ok(semi.p, NoneNode)
        rp == consume(toks, increment.p, "RIGHT_PAREN", "Expect ')' after for clauses.")
        body == rule("statement", toks, rp.p)
        body1 == IF increment.node.k # "None"
                 THEN [k |-> "Block", statements |->
                         <<body.node, [k |-> "Expression", expression |-> increment.node]>>]
                 ELSE body.node
        cond == IF condition.node.k = "None" THEN Literal(Bool(TRUE)) ELSE condition.node
        loop == [k |-> "While", condition |-> cond, body |-> body1]
    IN CASE ~lp.ok -> lp
         [] ~initializer.ok -> initializer
         [] ~condition.ok -> condition
         [] ~semi.ok -> semi
         [] ~increment.ok -> increment
         [] ~rp.ok -> rp
         [] ~body.ok -> body
         [] initializer.node.k # "None" ->
              Ok(body.p, [k |-> "Block", statements |-> <<initializer.node, loop>>])
         [] OTHER -> Ok(body.p, loop)

\* the while loop of parse() (in_block false) and of block(): st.p is the
\* parser and st.node the statements so far
RECURSIVE declarations(_, _, _)
declarations(toks, st, in_block) ==
    LET decl == rule("declaration", toks, st.p) IN
    CASE p_is_at_end(toks, st.p) \/ (in_block /\ p_check(toks, st.p, "RIGHT_BRACE")) -> st
      [] decl.node.k # "None" ->
           declarations(toks, Ok(decl.p, Append(st.node, decl.node)), in_block)
      [] OTHER -> declarations(toks, Ok(decl.p, st.node), in_block)

block(toks, p0) ==
    LET body == declarations(toks, Ok(p0, <<>>), TRUE)
        rb == consume(toks, body.p, "RIGHT_BRACE", "Expect '}' after block.")
    IN CASE ~rb.ok -> rb
         [] OTHER -> Ok(rb.p, body.node)

\* the do-while loop of function() over the parameters that follow a comma
RECURSIVE parameters_loop(_, _, _)
parameters_loop(toks, p, parameters) ==
    LET m == p_match(toks, p, {"COMMA"})
        q == IF Len(parameters) >= MaxArguments
             THEN p_error(m.p, p_peek(toks, m.p).line, "Can't have more than 255 parameters.")
             ELSE m.p
        param == consume(toks, q, "IDENTIFIER", "Expect parameter name.")
    IN CASE ~m.m -> Ok(p, parameters)
         [] ~param.ok -> param
         [] OTHER -> parameters_loop(toks, param.p, Append(parameters, param.node))

function(toks, p0, kind) ==
    LET name == consume(toks, p0, "IDENTIFIER",
                        IF kind = "function" THEN "Expect function name."
                        ELSE "Expect method name.")
        lp == consume(toks, name.p, "LEFT_PAREN",
                      IF kind = "function" THEN "Expect '(' after function name."
                      ELSE "Expect '(' after method name.")
        first == consume(toks, lp.p, "IDENTIFIER", "Expect parameter name.")
        parameters == CASE p_check(toks, lp.p, "RIGHT_PAREN") -> Ok(lp.p, <<>>)
                        [] ~first.ok -> first
                        [] OTHER -> parameters_loop(toks, first.p, <<first.node>>)
        rp == consume(toks, parameters.p, "RIGHT_PAREN", "Expect ')' after parameters.")
        lb == consume(toks, rp.p, "LEFT_BRACE",
                      IF kind = "function" THEN "Expect '{' before function body."
                      ELSE "Expect '{' before method body.")
        body == rule("block", toks, lb.p)
    IN CASE ~name.ok -> name
         [] ~lp.ok -> lp
         [] ~parameters.ok -> ParseError(parameters.p)
         [] ~rp.ok -> rp
         [] ~lb.ok -> lb
         [] ~body.ok -> body
         [] OTHER -> Ok(body.p, Function(name.node, parameters.node, body.node))

\* the while loop of class_declaration over the methods of the class body
RECURSIVE methods_loop(_, _, _)
methods_loop(toks, p, methods) ==
    LET fn == rule("method", toks, p) IN
    CASE p_check(toks, p, "RIGHT_BRACE") \/ p_is_at_end(toks, p) -> Ok(p, methods)
      [] ~fn.ok -> fn
      [] OTHER -> methods_loop(toks, fn.p, Append(methods, fn.node))

class_declaration(toks, p0) ==
    LET name == consume(toks, p0, "IDENTIFIER", "Expect class name.")
        m == p_match(toks, name.p, {"LESS"})
        sup == consume(toks, m.p, "IDENTIFIER", "Expect superclass name.")
        superclass == CASE ~m.m -> Ok(m.p, NoneNode)
                        [] ~sup.ok -> sup
                        [] OTHER -> Ok(sup.p, Variable(sup.node, m.p.current))
        lb == consume(toks, superclass.p, "LEFT_BRACE", "Expect '{' before class body.")
        methods == methods_loop(toks, lb.p, <<>>)
        rb == consume(toks, methods.p, "RIGHT_BRACE", "Expect '}' after class body.")
    IN CASE ~name.ok -> name
         [] ~superclass.ok -> superclass
         [] ~lb.ok -> lb
         [] ~methods.ok -> ParseError(methods.p)
         [] ~rb.ok -> rb
         [] OTHER -> Ok(rb.p, [k |-> "Class", name |-> name.node,
                               superclass |-> superclass.node, methods |-> methods.node])

statement(toks, p) ==
    LET type == IF p_is_at_end(toks, p) THEN "EOF" ELSE p_peek(toks, p).type
        a == p_advance(toks, p)
        b == rule("block", toks, a)
    IN CASE type = "FOR" -> rule("for_statement", toks, a)
         [] type = "IF" -> rule("if_statement", toks, a)
         [] type = "PRINT" -> rule("print_statement", toks, a)
         [] type = "RETURN" -> rule("return_statement", toks, a)
         [] type = "WHILE" -> rule("while_statement", toks, a)
         [] type = "LEFT_BRACE" /\ ~b.ok -> b
         [] type = "LEFT_BRACE" -> Ok(b.p, [k |-> "Block", statements |-> b.node])
         [] OTHER -> rule("expression_statement", toks, p)

\* the parser after the call and the statement returned (NoneNode for None)
declaration(toks, p) ==
    LET type == p_peek(toks, p).type
        a == p_advance(toks, p)
        r == CASE type = "CLASS" -> rule("class_declaration", toks, a)
               [] type = "FUN" -> rule("function", toks, a)
               [] type = "VAR" -> rule("var_declaration", toks, a)
               [] OTHER -> rule("statement", toks, p)
        logged(q) == [q EXCEPT !.synced = Append(@, [offending |-> r.p.current,
                                                     resumed |-> q.current])]
        called(d) == [d EXCEPT !.p.calls = Append(@, [from |-> p.current,
                                                      to |-> d.p.current])]
    IN CASE r.ok -> called(r)
         [] OTHER -> called(Ok(logged(synchronize(toks, r.p)), NoneNode))

rule(name, toks, p) ==
    CASE name = "parse" -> declarations(toks, Ok(p, <<>>), FALSE)
      [] name = "declaration" -> declaration(toks, p)
      [] name = "class_declaration" -> class_declaration(toks, p)
      [] name = "function" -> function(toks, p, "function")
      [] name = "method" -> function(toks, p, "method")
      [] name = "var_declaration" -> var_declaration(toks, p)
      [] name = "statement" -> statement(toks, p)
      [] name = "for_statement" -> for_statement(toks, p)
      [] name = "if_statement" -> if_statement(toks, p)
      [] name = "print_statement" -> print_statement(toks, p)
      [] name = "return_statement" -> return_statement(toks, p)
      [] name = "while_statement" -> while_statement(toks, p)
      [] name = "expression_statement" -> expression_statement(toks, p)
      [] name = "block" -> block(toks, p)
      [] name = "expression" -> expression(toks, p)
      [] name = "assignment" -> assignment(toks, p)
      [] name = "or_expr" -> or_expr(toks, p)
      [] name = "and_expr" -> binary_level(toks, p, 2)
      [] name = "equality" -> binary_level(toks, p, 3)
      [] name = "comparison" -> binary_level(toks, p, 4)
      [] name = "term" -> binary_level(toks, p, 5)
      [] name = "factor" -> binary_level(toks, p, 6)
      [] name = "unary" -> unary(toks, p)
      [] name = "call" -> call(toks, p)
      [] name = "primary" -> primary(toks, p)

\* parse(): .node is the list of statements returned, .p the parser (errors)
parse(toks) == rule("parse", toks, Parser(toks))

---------------------------------------------------------------------------
(* Python dicts keyed by names (sequences of characters) or by node uid.   *)

EmptyDict == <<>>
DictSet(dict, key, value) ==
    [x \in DOMAIN dict \cup {key} |-> IF x = key THEN value ELSE dict[x]]

THIS == <<"t", "h", "i", "s">>
SUPER == <<"s", "u", "p", "e", "r">>
INIT == <<"i", "n", "i", "t">>

---------------------------------------------------------------------------
(* Resolver.py.  The resolver object is r = [scopes, current_function,     *)
(* current_class, locals, reports]: locals is interpreter.locals, which    *)
(* Interpreter.resolve fills; reports are the lines error() writes.        *)

\* declared is a log that no method reads: for each visit_var_stmt the name,
\* the initializer, the number of scopes, the reports made while the
\* initializer was resolved and the innermost scope after define()
Resolver(locals) ==
    [scopes |-> <<>>, current_function |-> "None", current_class |-> "None",
     locals |-> locals, reports |-> <<>>, declared |-> <<>>]

res_error(r, token, msg) ==
    [r EXCEPT !.reports = Append(@, error("static", token.line, token, Msg(msg)))]

begin_scope(r) == [r EXCEPT !.scopes = Append(@, EmptyDict)]
end_scope(r) == [r EXCEPT !.scopes = SubSeq(@, 1, Len(@) - 1)]

\* a declare that marks the name ready at once
declare_ready(r, name) ==
    IF r.scopes = <<>> THEN r
    ELSE [r EXCEPT !.scopes[Len(r.scopes)] = DictSet(@, name.lexeme, TRUE)]

declare(r, name) ==
    IF r.scopes = <<>> THEN r
    ELSE LET top == Len(r.scopes)
             r1 == IF name.lexeme \in DOMAIN r.scopes[top]
                   THEN res_error(r, name, "Already a variable with this name in this scope.")
                   ELSE r
         IN [r1 EXCEPT !.scopes[top] = DictSet(@, name.lexeme, FALSE)]

define(r, name) ==
    IF r.scopes = <<>> THEN r
    ELSE [r EXCEPT !.scopes[Len(r.scopes)] = DictSet(@, name.lexeme, TRUE)]

\* a resolve that records one hop more than the resolver counted
interpreter_resolve_one_more(locals, uid, depth) == DictSet(locals, uid, depth + 1)

\* Interpreter.resolve(expr, depth): self.locals[expr] = depth
interpreter_resolve(locals, uid, depth) == DictSet(locals, uid, depth)

resolve_local(r, uid, name) ==
    LET found == {i \in 1..Len(r.scopes) : name.lexeme \in DOMAIN r.scopes[i]} IN
    IF found = {} THEN r
    ELSE LET i == CHOOSE j \in found : \A m \in found : m <= j IN
         [r EXCEPT !.locals = interpreter_resolve(@, uid, Len(r.scopes) - i)]

RECURSIVE resolve_stmt(_, _), resolve_expr(_, _)

\* resolve(statements): the for loop over stmts[lo..hi]
RECURSIVE resolve_range(_, _, _, _)
resolve_range(r, stmts, lo, hi) ==
    IF lo > hi THEN r
    ELSE IF lo = hi THEN resolve_stmt(r, stmts[lo])
    ELSE LET left == resolve_range(r, stmts, lo, (lo + hi) \div 2) IN
         CASE eager(left) -> resolve_range(left, stmts, (lo + hi) \div 2 + 1, hi)

resolve(r, stmts) == resolve_range(r, stmts, 1, Len(stmts))

\* a resolve_function that leaves the marker of the function it resolved
resolve_function_keeps(r0, fn, ftype) ==
    LET RECURSIVE params(_, _)
        params(r, i) ==
            IF i > Len(fn.params) THEN r
            ELSE params(define(declare(r, fn.params[i]), fn.params[i]), i + 1)
    IN end_scope(resolve(params(begin_scope([r0 EXCEPT !.current_function = ftype]), 1),
                         fn.body))

resolve_function(r0, fn, ftype) ==
    LET RECURSIVE params(_, _)
        params(r, i) ==
            IF i > Len(fn.params) THEN r
            ELSE params(define(declare(r, fn.params[i]), fn.params[i]), i + 1)
        enclosing_function == r0.current_function
        r1 == begin_scope([r0 EXCEPT !.current_function = ftype])
        r2 == resolve(params(r1, 1), fn.body)
    IN [end_scope(r2) EXCEPT !.current_function = enclosing_function]

res_visit_class_stmt(r0, stmt) ==
    LET RECURSIVE methods(_, _)
        methods(r, i) ==
            IF i > Len(stmt.methods) THEN r
            ELSE methods(resolve_function(r, stmt.methods[i],
                            IF stmt.methods[i].name.lexeme = INIT THEN "initializer"
                            ELSE "method"), i + 1)
        enclosing_class == r0.current_class
        r1 == define(declare([r0 EXCEPT !.current_class = "class"], stmt.name), stmt.name)
        r2 == IF stmt.superclass.k # "None"
              THEN LET r21 == IF stmt.superclass.name.lexeme = stmt.name.lexeme
                              THEN res_error(r1, stmt.superclass.name,
                                             "A class can't inherit from itself.")
                              ELSE r1
                       r22 == begin_scope(resolve_expr(r21, stmt.superclass))
                   IN [r22 EXCEPT !.scopes[Len(r22.scopes)] = DictSet(@, SUPER, TRUE)]
              ELSE r1
        r3 == begin_scope(r2)
        r4 == methods([r3 EXCEPT !.scopes[Len(r3.scopes)] = DictSet(@, THIS, TRUE)], 1)
        r5 == end_scope(r4)
        r6 == IF stmt.superclass.k # "None" THEN end_scope(r5) ELSE r5
    IN [r6 EXCEPT !.current_class = enclosing_class]

res_visit_var_stmt(r, stmt) ==
    LET r1 == declare(r, stmt.name)
        r2 == IF stmt.initializer.k # "None" THEN resolve_expr(r1, stmt.initializer) ELSE r1
        r3 == define(r2, stmt.name)
    IN [r3 EXCEPT !.declared =
            Append(@, [name |-> stmt.name.lexeme, initializer |-> stmt.initializer,
                       depth |-> Len(r.scopes),
                       reported |-> SubSeq(r2.reports, Len(r1.reports) + 1, Len(r2.reports)),
                       scope |-> IF r3.scopes = <<>> THEN EmptyDict
                                 ELSE r3.scopes[Len(r3.scopes)]])]

res_visit_return_stmt(r, stmt) ==
    LET r1 == IF r.current_function = "None"
              THEN res_error(r, stmt.keyword, "Can't return from top-level code.")
              ELSE r
    IN IF stmt.value.k # "None"
       THEN resolve_expr(IF r1.current_function = "initializer"
                         THEN res_error(r1, stmt.keyword,
                                        "Can't return a value from an initializer.")
                         ELSE r1, stmt.value)
       ELSE r1

resolve_stmt(r, stmt) ==
    CASE stmt.k = "Block" -> end_scope(resolve(begin_scope(r), stmt.statements))
      [] stmt.k = "Class" -> res_visit_class_stmt(r, stmt)
      [] stmt.k = "Var" -> res_visit_var_stmt(r, stmt)
      [] stmt.k = "Function" ->
           resolve_function(define(declare(r, stmt.name), stmt.name), stmt, "function")
      [] stmt.k = "Expression" -> resolve_expr(r, stmt.expression)
      [] stmt.k = "If" ->
           LET r1 == resolve_stmt(resolve_expr(r, stmt.condition), stmt.then_branch) IN
           IF stmt.else_branch.k # "None" THEN resolve_stmt(r1, stmt.else_branch) ELSE r1
      [] stmt.k = "Print" -> resolve_expr(r, stmt.expression)
      [] stmt.k = "Return" -> res_visit_return_stmt(r, stmt)
      [] stmt.k = "While" -> resolve_stmt(resolve_expr(r, stmt.condition), stmt.body)

res_visit_variable_expr(r, expr) ==
    LET top == Len(r.scopes)
        r1 == IF /\ r.scopes # <<>>
                 /\ expr.name.lexeme \in DOMAIN r.scopes[top]
                 /\ r.scopes[top][expr.name.lexeme] = FALSE
              THEN res_error(r, expr.name,
                             "Can't read local variable in its own initializer.")
              ELSE r
    IN resolve_local(r1, expr.uid, expr.name)

res_visit_this_expr(r, expr) ==
    resolve_local(IF r.current_class = "None"
                  THEN res_error(r, expr.keyword, "Can't use 'this' outside of a class.")
                  ELSE r, expr.uid, expr.keyword)

res_visit_super_expr(r, expr) ==
    resolve_local(IF r.current_class = "None"
                  THEN res_error(r, expr.keyword, "Can't use 'super' outside of a class.")
                  ELSE IF r.current_class # "class"
                  THEN res_error(r, expr.keyword,
                                 "Can't use 'super' in a class with no superclass.")
                  ELSE r, expr.uid, expr.keyword)

resolve_expr(r0, expr) ==
    LET RECURSIVE args(_, _)
        args(r, i) ==
            IF i > Len(expr.arguments) THEN r
            ELSE args(resolve_expr(r, expr.arguments[i]), i + 1)
    IN CASE expr.k = "Variable" -> res_visit_variable_expr(r0, expr)
         [] expr.k = "Assign" ->
              resolve_local(resolve_expr(r0, expr.value), expr.uid, expr.name)
         [] expr.k \in {"Binary", "Logical"} ->
              resolve_expr(resolve_expr(r0, expr.left), expr.right)
         [] expr.k = "Call" -> args(resolve_expr(r0, expr.callee), 1)
         [] expr.k = "Get" -> resolve_expr(r0, expr.object)
         [] expr.k = "Set" -> resolve_expr(resolve_expr(r0, expr.value), expr.object)
         [] expr.k = "Literal" -> r0
         [] expr.k = "Unary" -> resolve_expr(r0, expr.right)
         [] expr.k = "Grouping" -> resolve_expr(r0, expr.expression)
         [] expr.k = "This" -> res_visit_this_expr(r0, expr)
         [] expr.k = "Super" -> res_visit_super_expr(r0, expr)

---------------------------------------------------------------------------
(* Environment.py.  The heap of frames is s.envs; a frame is               *)
(* [values, enclosing], enclosing = 0 for None; frame 1 is the global one. *)

Environment(enclosing) == [values |-> EmptyDict, enclosing |-> enclosing]
GLOBALS == 1

\* the result of a visit: sig "ok" (v is the value), "error" (RuntimeErr with
\* tok and msg), "return" (Return carrying v) or "crash" (another exception)
Done(s, v) == [s |-> s, sig |-> "ok", v |-> v, tok |-> NoToken, msg |-> Msg("")]
RuntimeErr(s, token, msg) == [s |-> s, sig |-> "error", v |-> Nil, tok |-> token, msg |-> msg]
Crash(s, what) == [s |-> s, sig |-> "crash", v |-> Nil, tok |-> NoToken, msg |-> Msg(what)]

\* Environment(enclosing) allocated on the heap: the new frame is Len(envs) + 1
new_env(s, enclosing) == [s EXCEPT !.envs = Append(@, Environment(enclosing))]

env_define(s, env, name, value) ==
    [s EXCEPT !.envs[env].values = DictSet(@, name, value)]

RECURSIVE env_get(_, _, _)
env_get(s, env, name) ==
    IF name.lexeme \in DOMAIN s.envs[env].values
    THEN Done(s, s.envs[env].values[name.lexeme])
    ELSE IF s.envs[env].enclosing # 0 THEN env_get(s, s.envs[env].enclosing, name)
    ELSE RuntimeErr(s, name, MsgName("Undefined variable '{}'.", name.lexeme))

\* an assign that binds the name where it stands, as define does
env_assign_defines(s, env, name, value) ==
    Done(env_define(s, env, name.lexeme, value), value)

RECURSIVE env_assign(_, _, _, _)
env_assign(s, env, name, value) ==
    IF name.lexeme \in DOMAIN s.envs[env].values
    THEN Done(env_define(s, env, name.lexeme, value), value)
    ELSE IF s.envs[env].enclosing # 0
    THEN env_assign(s, s.envs[env].enclosing, name, value)
    ELSE RuntimeErr(s, name, MsgName("Undefined variable '{}'.", name.lexeme))

\* ancestor(distance): the frame reached, 0 when the chain ends first (None)
RECURSIVE ancestor(_, _, _)
ancestor(s, env, distance) ==
    IF distance = 0 \/ env = 0 THEN env
    ELSE ancestor(s, s.envs[env].enclosing, distance - 1)

\* get_at(distance, name): dict.get gives None for a missing name
get_at(s, env, distance, name) ==
    LET frame == ancestor(s, env, distance)
        hit == frame # 0 /\ name.lexeme \in DOMAIN s.envs[frame].values
        s1 == [s EXCEPT !.trace = Append(@, [ev |-> "get_at", name |-> name.lexeme,
                                             distance |-> distance, hit |-> hit])]
    IN IF frame = 0 THEN Crash(s1, "AttributeError")
       ELSE Done(s1, IF hit THEN s.envs[frame].values[name.lexeme] ELSE Nil)

assign_at(s, env, distance, name, value) ==
    LET frame == ancestor(s, env, distance)
        hit == frame # 0 /\ name.lexeme \in DOMAIN s.envs[frame].values
        s1 == [s EXCEPT !.trace = Append(@, [ev |-> "assign_at", name |-> name.lexeme,
                                             distance |-> distance, hit |-> hit])]
    IN IF frame = 0 THEN Crash(s1, "AttributeError")
       ELSE Done(env_define(s1, frame, name.lexeme, value), value)

---------------------------------------------------------------------------
(* Interpreter.py, LoxFunction.py, LoxClass.py, LoxInstance.py.           *)
(* s is the Interpreter object with the heap it reaches: envs,            *)
(* environment (the current frame), locals, functions, classes,           *)
(* instances, out (the lines print wrote) and trace (a log of the         *)
(* operations performed, which no operation reads).                        *)

Interpreter ==
    [envs |-> <<Environment(0)>>, environment |-> GLOBALS, locals |-> EmptyDict,
     functions |-> <<>>, classes |-> <<>>, instances |-> <<>>,
     out |-> <<>>, trace |-> <<>>]

\* typing.TYPE_CHECKING, under which LoxClass.py imports LoxInstance
TYPE_CHECKING == FALSE

\* a truthiness under which only nil and false are false
is_truthy_nil_false(obj) == ~(obj.t = "nil" \/ (obj.t = "bool" /\ obj.n = 0))

is_truthy(obj) ==
    CASE obj.t = "nil" -> FALSE
      [] obj.t \in {"bool", "num"} -> obj.n # 0
      [] obj.t = "str" -> obj.s # <<>>
      [] OTHER -> TRUE

\* isinstance(x, (int, float)): bool is a subclass of int
is_number(obj) == obj.t \in {"num", "bool"}

is_equal(a, b) ==
    IF is_number(a) /\ is_number(b) THEN a.n = b.n /\ a.d = b.d
    ELSE a.t = b.t /\ a.n = b.n /\ a.s = b.s

check_number_operands(s, operator, left, right) ==
    IF is_number(left) /\ is_number(right) THEN Done(s, Nil)
    ELSE RuntimeErr(s, operator, Msg("Operands must be numbers."))

\* what a read or an assignment of a global found and did, for the trace
global_event(ev, s, name, r) ==
    [ev |-> ev, name |-> name.lexeme, environment |-> s.environment,
     defined |-> name.lexeme \in DOMAIN s.envs[GLOBALS].values,
     before |-> s.envs, after |-> r.s.envs, sig |-> r.sig, v |-> r.v, msg |-> r.msg]

lookup_variable(s, name, uid) ==
    LET logged(r) == [r EXCEPT !.s.trace = Append(@, global_event("globals.get", s, name, r))]
    IN IF uid \in DOMAIN s.locals
       THEN get_at(s, s.environment, s.locals[uid], name)
       ELSE logged(env_get(s, GLOBALS, name))

\* a function that keeps a copy of the frame instead of the frame itself
new_function_by_value(s, decl, closure, is_initializer) ==
    LET s1 == [s EXCEPT !.envs = Append(@, s.envs[closure])] IN
    [s1 EXCEPT !.functions = Append(@, [declaration |-> decl, closure |-> Len(s1.envs),
                                        is_initializer |-> is_initializer])]

\* LoxFunction(declaration, closure, is_initializer) allocated on the heap
new_function(s, decl, closure, is_initializer) ==
    [s EXCEPT !.functions = Append(@, [declaration |-> decl, closure |-> closure,
                                       is_initializer |-> is_initializer])]

\* a find_method that looks at the class itself only
find_method_own(s, klass, name) ==
    IF name \in DOMAIN s.classes[klass].methods THEN s.classes[klass].methods[name] ELSE 0

RECURSIVE find_method(_, _, _)
find_method(s, klass, name) ==
    IF name \in DOMAIN s.classes[klass].methods THEN s.classes[klass].methods[name]
    ELSE IF s.classes[klass].superclass # 0
    THEN find_method(s, s.classes[klass].superclass, name)
    ELSE 0

\* LoxFunction.bind(instance): the state with the new frame and function; the
\* function returned is the last of s.functions
bind(s, fn, instance) ==
    LET s1 == new_env(s, s.functions[fn].closure)
        environment == Len(s1.envs)
    IN new_function(env_define(s1, environment, THIS, instance),
                    s.functions[fn].declaration, environment,
                    s.functions[fn].is_initializer)

\* an arity that counts one parameter too many
arity_one_more(s, callee) ==
    1 + (IF callee.t = "fn" THEN Len(s.functions[callee.n].declaration.params) ELSE 0)

arity(s, callee) ==
    IF callee.t = "fn" THEN Len(s.functions[callee.n].declaration.params)
    ELSE LET initializer == find_method(s, callee.n, INIT) IN
         IF initializer = 0 THEN 0
         ELSE Len(s.functions[initializer].declaration.params)

\* node.accept(self): the visit method of the class of the node
RECURSIVE accept(_, _)

evaluate(s, expr) == accept(s, expr)
execute(s, stmt) == accept(s, stmt)

\* the arithmetic and comparison of visit_binary_expr, on float(left), float(right)
binary_op(s, operator, left, right) ==
    LET type == operator.type
        checked == check_number_operands(s, operator, left, right)
    IN CASE type \in {"GREATER", "GREATER_EQUAL", "LESS", "LESS_EQUAL", "MINUS", "STAR"} ->
              IF checked.sig # "ok" THEN checked
              ELSE Done(s, CASE type = "GREATER" -> Bool(left.n * right.d > right.n * left.d)
                             [] type = "GREATER_EQUAL" ->
                                  Bool(left.n * right.d >= right.n * left.d)
                             [] type = "LESS" -> Bool(left.n * right.d < right.n * left.d)
                             [] type = "LESS_EQUAL" ->
                                  Bool(left.n * right.d <= right.n * left.d)
                             [] type = "MINUS" ->
                                  Num(left.n * right.d - right.n * left.d, left.d * right.d)
                             [] type = "STAR" -> Num(left.n * right.n, left.d * right.d))
         [] type = "BANG_EQUAL" -> Done(s, Bool(~is_equal(left, right)))
         [] type = "EQUAL_EQUAL" -> Done(s, Bool(is_equal(left, right)))
         [] type = "SLASH" ->
              IF checked.sig # "ok" THEN checked
              ELSE IF right.n = 0
              THEN RuntimeErr(s, operator, Msg("Can't divide by zero."))
              ELSE Done(s, Num(left.n * right.d, left.d * right.n))
         [] type = "PLUS" ->
              IF left.t = "num" /\ right.t = "num"
              THEN Done(s, Num(left.n * right.d + right.n * left.d, left.d * right.d))
              ELSE IF left.t = "str" /\ right.t = "str"
              THEN Done(s, Str(left.s \o right.s))
              ELSE RuntimeErr(s, operator,
                              Msg("Operands must be two numbers or two strings."))
         [] OTHER -> Done(s, Nil)

visit_binary_expr(s, expr) ==
    LET left == evaluate(s, expr.left) IN
    IF left.sig # "ok" THEN left
    ELSE LET right == evaluate(left.s, expr.right) IN
    IF right.sig # "ok" THEN right
    ELSE LET r == binary_op(right.s, expr.operator, left.v, right.v) IN
         [r EXCEPT !.s.trace = Append(@, [ev |-> "binary", operator |-> expr.operator.type,
                                          left |-> left.v, right |-> right.v,
                                          sig |-> r.sig, msg |-> r.msg.text, v |-> r.v])]

\* a visit_logical_expr that evaluates both operands before it chooses
visit_logical_expr_eager(s, expr) ==
    LET left == evaluate(s, expr.left)
        right == evaluate(left.s, expr.right)
    IN IF left.sig # "ok" THEN left
       ELSE IF right.sig # "ok" THEN right
       ELSE IF expr.operator.type = "OR"
       THEN (IF is_truthy(left.v) THEN Done(right.s, left.v) ELSE right)
       ELSE (IF ~is_truthy(left.v) THEN Done(right.s, left.v) ELSE right)

visit_logical_expr(s, expr) ==
    LET left == evaluate(s, expr.left) IN
    IF left.sig # "ok" THEN left
    ELSE IF expr.operator.type = "OR"
    THEN (IF is_truthy(left.v) THEN left ELSE evaluate(left.s, expr.right))
    ELSE (IF ~is_truthy(left.v) THEN left ELSE evaluate(left.s, expr.right))

visit_unary_expr(s, expr) ==
    LET right == evaluate(s, expr.right) IN
    IF right.sig # "ok" THEN right
    ELSE IF expr.operator.type = "MINUS"
    THEN (IF is_number(right.v) THEN Done(right.s, Num(-right.v.n, right.v.d))
          ELSE RuntimeErr(right.s, expr.operator, Msg("Operand must be a number.")))
    ELSE IF expr.operator.type = "BANG" THEN Done(right.s, Bool(~is_truthy(right.v)))
    ELSE Done(right.s, Nil)

visit_assign_expr(s, expr) ==
    LET value == evaluate(s, expr.value) IN
    IF value.sig # "ok" THEN value
    ELSE IF expr.uid \in DOMAIN value.s.locals
    THEN assign_at(value.s, value.s.environment, value.s.locals[expr.uid], expr.name, value.v)
    ELSE LET logged(r) ==
                 [r EXCEPT !.s.trace =
                     Append(@, global_event("globals.assign", value.s, expr.name, r))]
         IN logged(env_assign(value.s, GLOBALS, expr.name, value.v))

\* LoxInstance.get(name)
instance_get(s, obj, name) ==
    IF name.lexeme \in DOMAIN s.instances[obj.n].fields
    THEN Done(s, s.instances[obj.n].fields[name.lexeme])
    ELSE LET method == find_method(s, s.instances[obj.n].klass, name.lexeme) IN
         IF method # 0
         THEN LET s1 == bind(s, method, obj) IN Done(s1, FnVal(Len(s1.functions)))
         ELSE RuntimeErr(s, name, MsgName("Undefined property '{}'.", name.lexeme))

visit_get_expr(s, expr) ==
    LET obj == evaluate(s, expr.object) IN
    IF obj.sig # "ok" THEN obj
    ELSE IF obj.v.t = "inst" THEN instance_get(obj.s, obj.v, expr.name)
    ELSE RuntimeErr(obj.s, expr.name, Msg("Only instances have properties."))

visit_set_expr(s, expr) ==
    LET obj == evaluate(s, expr.object) IN
    IF obj.sig # "ok" THEN obj
    ELSE IF obj.v.t # "inst"
    THEN RuntimeErr(obj.s, expr.name, Msg("Only instances have fields."))
    ELSE LET value == evaluate(obj.s, expr.value) IN
         IF value.sig # "ok" THEN value
         ELSE Done([value.s EXCEPT !.instances[obj.v.n].fields =
                        DictSet(@, expr.name.lexeme, value.v)], value.v)

visit_super_expr(s, expr) ==
    IF expr.uid \notin DOMAIN s.locals THEN Crash(s, "TypeError")
    ELSE LET distance == s.locals[expr.uid]
             superclass == get_at(s, s.environment, distance,
                                  Token("SUPER", SUPER, Nil, expr.keyword.line))
         IN IF superclass.sig # "ok" THEN superclass
            ELSE LET obj == get_at(superclass.s, s.environment, distance - 1,
                                   Token("THIS", THIS, Nil, expr.keyword.line))
                 IN IF obj.sig # "ok" THEN obj
                    ELSE IF superclass.v.t # "class" THEN Crash(obj.s, "AttributeError")
                    ELSE LET method == find_method(obj.s, superclass.v.n, expr.method.lexeme)
                         IN IF method = 0
                            THEN RuntimeErr(obj.s, expr.method,
                                   MsgName("Undefined property '{}'.", expr.method.lexeme))
                            ELSE LET s1 == bind(obj.s, method, obj.v)
                                 IN Done(s1, FnVal(Len(s1.functions)))

\* for stmt in statements: self.execute(stmt), over stmts[lo..hi]; an
\* exception ends the loop
RECURSIVE execute_range(_, _, _, _)
execute_range(s, stmts, lo, hi) ==
    IF lo > hi THEN Done(s, Nil)
    ELSE IF lo = hi THEN execute(s, stmts[lo])
    ELSE LET left == execute_range(s, stmts, lo, (lo + hi) \div 2) IN
         IF left.sig # "ok" THEN left
         ELSE execute_range(left.s, stmts, (lo + hi) \div 2 + 1, hi)

\* an execute_block without the finally clause: an exception leaves the
\* environment of the block installed
execute_block_no_finally(s0, stmts, environment) ==
    LET previous == s0.environment
        r == execute_range([s0 EXCEPT !.environment = environment], stmts, 1, Len(stmts))
        restored == IF r.sig = "ok" THEN [r EXCEPT !.s.environment = previous] ELSE r
    IN [restored EXCEPT !.s.trace =
            Append(@, [ev |-> "execute_block", entered |-> s0.environment,
                       left |-> restored.s.environment, sig |-> r.sig])]

\* an execute_block that stays in the environment of the block
execute_block_keeps(s0, stmts, environment) ==
    LET r == execute_range([s0 EXCEPT !.environment = environment], stmts, 1, Len(stmts))
    IN [r EXCEPT !.s.trace =
            Append(@, [ev |-> "execute_block", entered |-> s0.environment,
                       left |-> r.s.environment, sig |-> r.sig])]

execute_block(s0, stmts, environment) ==
    LET previous == s0.environment
        r == execute_range([s0 EXCEPT !.environment = environment], stmts, 1, Len(stmts))
        restored == [r EXCEPT !.s.environment = previous]
    IN [restored EXCEPT !.s.trace =
            Append(@, [ev |-> "execute_block", entered |-> s0.environment,
                       left |-> restored.s.environment, sig |-> r.sig])]

\* LoxFunction.call(interpreter, arguments)
function_call(s, fn, arguments) ==
    LET RECURSIVE params(_, _)
        params(s1, i) ==
            IF i > Len(s.functions[fn].declaration.params) \/ i > Len(arguments) THEN s1
            ELSE params(env_define(s1, Len(s1.envs),
                                   s.functions[fn].declaration.params[i].lexeme,
                                   arguments[i]), i + 1)
        s2 == params(new_env(s, s.functions[fn].closure), 1)
        environment == Len(s2.envs)
        s3 == [s2 EXCEPT !.trace = Append(@, [ev |-> "call", fn |-> fn,
                                              environment |-> environment,
                                              values |-> s2.envs[environment].values,
                                              enclosing |-> s2.envs[environment].enclosing,
                                              frames |-> Len(s.envs)])]
        r == execute_block(s3, s.functions[fn].declaration.body, environment)
    IN IF r.sig \in {"error", "crash"} THEN r
       \* self.closure.get_at(0, "this"): a str has no attribute lexeme
       ELSE IF s.functions[fn].is_initializer THEN Crash(r.s, "AttributeError")
       ELSE IF r.sig = "return" THEN Done(r.s, r.v)
       ELSE Done(r.s, Nil)

\* LoxClass.call(interpreter, arguments)
class_call(s, klass, arguments) ==
    IF ~TYPE_CHECKING THEN Crash(s, "NameError")
    ELSE LET s1 == [s EXCEPT !.instances = Append(@, [klass |-> klass, fields |-> EmptyDict])]
             instance == InstVal(Len(s1.instances))
             initializer == find_method(s1, klass, INIT)
         IN IF initializer = 0 THEN Done(s1, instance)
            ELSE LET s2 == bind(s1, initializer, instance)
                     r == function_call(s2, Len(s2.functions), arguments)
                 IN IF r.sig # "ok" THEN r ELSE Done(r.s, instance)

\* what a call of a callable was given and what came of it, for the trace:
\* events counts the trace entries written between the comparison of the
\* counts and the result
checked_event(s, callee, arguments, r) ==
    [ev |-> "checked_call", callee |-> callee, arguments |-> arguments,
     before |-> s.envs, after |-> r.s.envs, printed |-> Len(r.s.out) - Len(s.out),
     events |-> Len(r.s.trace) - Len(s.trace), sig |-> r.sig, msg |-> r.msg]

\* a raise of visit_call_expr itself, for the trace: the call expression and
\* the interpreter as it was when the method was entered
raised_event(s0, expr, r) ==
    [r EXCEPT !.s.trace = Append(@, [ev |-> "call_raised", expr |-> expr,
                                     entry |-> [s0 EXCEPT !.trace = <<>>]])]

\* a visit_call_expr that checks the callee and the number of argument
\* expressions before it evaluates the arguments
visit_call_expr_checks_first(s0, expr) ==
    LET RECURSIVE args(_, _, _)
        args(s, i, acc) ==
            IF i > Len(expr.arguments) THEN Done(s, acc)
            ELSE LET a == evaluate(s, expr.arguments[i]) IN
                 IF a.sig # "ok" THEN a ELSE args(a.s, i + 1, Append(acc, a.v))
        callee == evaluate(s0, expr.callee)
    IN IF callee.sig # "ok" THEN callee
       ELSE IF callee.v.t \notin {"fn", "class"}
       THEN raised_event(s0, expr,
                RuntimeErr(callee.s, expr.paren, Msg("Can only call functions and classes.")))
       ELSE IF Len(expr.arguments) # arity(callee.s, callee.v)
       THEN raised_event(s0, expr,
                RuntimeErr(callee.s, expr.paren,
                           MsgCount("Expected {} arguments but got {}.",
                                    arity(callee.s, callee.v), Len(expr.arguments))))
       ELSE LET arguments == args(callee.s, 1, <<>>) IN
       IF arguments.sig # "ok" THEN arguments
       ELSE IF callee.v.t = "fn"
       THEN function_call(arguments.s, callee.v.n, arguments.v)
       ELSE class_call(arguments.s, callee.v.n, arguments.v)

visit_call_expr(s0, expr) ==
    LET RECURSIVE args(_, _, _)
        args(s, i, acc) ==
            IF i > Len(expr.arguments) THEN Done(s, acc)
            ELSE LET a == evaluate(s, expr.arguments[i]) IN
                 IF a.sig # "ok" THEN a ELSE args(a.s, i + 1, Append(acc, a.v))
        callee == evaluate(s0, expr.callee)
    IN IF callee.sig # "ok" THEN callee
       ELSE LET arguments == args(callee.s, 1, <<>>) IN
       IF arguments.sig # "ok" THEN arguments
       ELSE IF callee.v.t \notin {"fn", "class"}
       THEN raised_event(s0, expr,
                RuntimeErr(arguments.s, expr.paren, Msg("Can only call functions and classes.")))
       ELSE LET checked(r) ==
                    [r EXCEPT !.s.trace =
                        Append(@, checked_event(arguments.s, callee.v, arguments.v, r))]
            IN
       IF Len(arguments.v) # arity(arguments.s, callee.v)
       THEN raised_event(s0, expr,
                checked(RuntimeErr(arguments.s, expr.paren,
                                   MsgCount("Expected {} arguments but got {}.",
                                            arity(arguments.s, callee.v), Len(arguments.v)))))
       ELSE IF callee.v.t = "fn"
       THEN checked(function_call(arguments.s, callee.v.n, arguments.v))
       ELSE checked(class_call(arguments.s, callee.v.n, arguments.v))

visit_function_stmt(s, stmt) ==
    LET s1 == new_function(s, stmt, s.environment, FALSE)
        s2 == [s1 EXCEPT !.trace = Append(@, [ev |-> "function", fn |-> Len(s1.functions),
                                              environment |-> s.environment])]
    IN Done(env_define(s2, s.environment, stmt.name.lexeme, FnVal(Len(s1.functions))), Nil)

\* the raise of visit_class_stmt, for the trace: the class statement, the
\* interpreter as it was when the method was entered and as it is at the raise
class_raised_event(s, stmt, r) ==
    [r EXCEPT !.s.trace = Append(@, [ev |-> "class_raised", stmt |-> stmt,
                                     entry |-> [s EXCEPT !.trace = <<>>],
                                     at |-> [r.s EXCEPT !.trace = <<>>]])]

\* a visit_class_stmt that defines the class name and pushes the frame of
\* `super` before it looks at the value of the superclass
visit_class_stmt_binds_first(s, stmt) ==
    LET RECURSIVE methods(_, _, _)
        methods(s1, i, acc) ==
            IF i > Len(stmt.methods) THEN [s |-> s1, methods |-> acc]
            ELSE LET s2 == new_function(s1, stmt.methods[i], s1.environment,
                                        stmt.methods[i].name.lexeme = INIT)
                 IN methods(s2, i + 1,
                            DictSet(acc, stmt.methods[i].name.lexeme, Len(s2.functions)))
        superclass == IF stmt.superclass.k # "None" THEN evaluate(s, stmt.superclass)
                      ELSE Done(s, Nil)
    IN IF superclass.sig # "ok" THEN superclass
       ELSE LET s1 == env_define(superclass.s, s.environment, stmt.name.lexeme, Nil)
                s2 == IF stmt.superclass.k # "None"
                      THEN LET s21 == new_env(s1, s1.environment) IN
                           env_define([s21 EXCEPT !.environment = Len(s21.envs)],
                                      Len(s21.envs), SUPER, superclass.v)
                      ELSE s1
                m == methods(s2, 1, EmptyDict)
                s3 == [m.s EXCEPT !.classes = Append(@,
                          [name |-> stmt.name.lexeme,
                           superclass |-> IF stmt.superclass.k # "None" THEN superclass.v.n
                                          ELSE 0,
                           methods |-> m.methods])]
                s4 == IF stmt.superclass.k # "None"
                      THEN [s3 EXCEPT !.environment = s3.envs[s3.environment].enclosing]
                      ELSE s3
            IN IF stmt.superclass.k # "None" /\ superclass.v.t # "class"
               THEN class_raised_event(s, stmt,
                        RuntimeErr(s2, stmt.superclass.name, Msg("Superclass must be a class.")))
               ELSE env_assign(s4, s4.environment, stmt.name, ClassVal(Len(s4.classes)))

visit_class_stmt(s, stmt) ==
    LET RECURSIVE methods(_, _, _)
        methods(s1, i, acc) ==
            IF i > Len(stmt.methods) THEN [s |-> s1, methods |-> acc]
            ELSE LET s2 == new_function(s1, stmt.methods[i], s1.environment,
                                        stmt.methods[i].name.lexeme = INIT)
                 IN methods(s2, i + 1,
                            DictSet(acc, stmt.methods[i].name.lexeme, Len(s2.functions)))
        superclass == IF stmt.superclass.k # "None" THEN evaluate(s, stmt.superclass)
                      ELSE Done(s, Nil)
    IN IF superclass.sig # "ok" THEN superclass
       ELSE IF stmt.superclass.k # "None" /\ superclass.v.t # "class"
       THEN class_raised_event(s, stmt,
                RuntimeErr(superclass.s, stmt.superclass.name,
                           Msg("Superclass must be a class.")))
       ELSE LET s1 == env_define(superclass.s, s.environment, stmt.name.lexeme, Nil)
                s2 == IF stmt.superclass.k # "None"
                      THEN LET s21 == new_env(s1, s1.environment) IN
                           env_define([s21 EXCEPT !.environment = Len(s21.envs)],
                                      Len(s21.envs), SUPER, superclass.v)
                      ELSE s1
                m == methods(s2, 1, EmptyDict)
                s3 == [m.s EXCEPT !.classes = Append(@,
                          [name |-> stmt.name.lexeme,
                           superclass |-> IF stmt.superclass.k # "None" THEN superclass.v.n
                                          ELSE 0,
                           methods |-> m.methods])]
                s4 == IF stmt.superclass.k # "None"
                      THEN [s3 EXCEPT !.environment = s3.envs[s3.environment].enclosing]
                      ELSE s3
            IN env_assign(s4, s4.environment, stmt.name, ClassVal(Len(s4.classes)))

visit_while_stmt(s, stmt) ==
    LET RECURSIVE loop(_)
        loop(s1) ==
            LET condition == evaluate(s1, stmt.condition) IN
            IF condition.sig # "ok" THEN condition
            ELSE IF ~is_truthy(condition.v) THEN Done(condition.s, Nil)
            ELSE LET body == execute(condition.s, stmt.body) IN
                 IF body.sig # "ok" THEN body ELSE loop(body.s)
    IN loop(s)

visit_expression_stmt(s, stmt) ==
    LET r == evaluate(s, stmt.expression) IN
    IF r.sig # "ok" THEN r ELSE Done(r.s, Nil)

visit_print_stmt(s, stmt) ==
    LET value == evaluate(s, stmt.expression) IN
    IF value.sig # "ok" THEN value
    ELSE Done([value.s EXCEPT !.out = Append(@, value.v)], Nil)

visit_var_stmt(s, stmt) ==
    LET value == IF stmt.initializer.k # "None" THEN evaluate(s, stmt.initializer)
                 ELSE Done(s, Nil)
    IN IF value.sig # "ok" THEN value
       ELSE Done(env_define(value.s, value.s.environment, stmt.name.lexeme, value.v), Nil)

visit_block_stmt(s, stmt) ==
    LET s1 == new_env(s, s.environment) IN
    execute_block(s1, stmt.statements, Len(s1.envs))

visit_if_stmt(s, stmt) ==
    LET condition == evaluate(s, stmt.condition) IN
    IF condition.sig # "ok" THEN condition
    ELSE IF is_truthy(condition.v) THEN execute(condition.s, stmt.then_branch)
    ELSE IF stmt.else_branch.k # "None" THEN execute(condition.s, stmt.else_branch)
    ELSE Done(condition.s, Nil)

\* raise Return(value)
visit_return_stmt(s, stmt) ==
    LET value == IF stmt.value.k # "None" THEN evaluate(s, stmt.value)
                 ELSE Done(s, Nil)
    IN IF value.sig # "ok" THEN value
       ELSE [s |-> value.s, sig |-> "return", v |-> value.v,
             tok |-> NoToken, msg |-> Msg("")]

accept(s, node) ==
    CASE node.k = "Literal" -> Done(s, node.value)
      [] node.k = "Variable" -> lookup_variable(s, node.name, node.uid)
      [] node.k = "This" -> lookup_variable(s, node.keyword, node.uid)
      [] node.k = "Assign" -> visit_assign_expr(s, node)
      [] node.k = "Binary" -> visit_binary_expr(s, node)
      [] node.k = "Logical" -> visit_logical_expr(s, node)
      [] node.k = "Unary" -> visit_unary_expr(s, node)
      [] node.k = "Grouping" -> evaluate(s, node.expression)
      [] node.k = "Call" -> visit_call_expr(s, node)
      [] node.k = "Get" -> visit_get_expr(s, node)
      [] node.k = "Set" -> visit_set_expr(s, node)
      [] node.k = "Super" -> visit_super_expr(s, node)
      [] node.k = "Expression" -> visit_expression_stmt(s, node)
      [] node.k = "Print" -> visit_print_stmt(s, node)
      [] node.k = "Var" -> visit_var_stmt(s, node)
      [] node.k = "Block" -> visit_block_stmt(s, node)
      [] node.k = "If" -> visit_if_stmt(s, node)
      [] node.k = "While" -> visit_while_stmt(s, node)
      [] node.k = "Function" -> visit_function_stmt(s, node)
      [] node.k = "Class" -> visit_class_stmt(s, node)
      [] node.k = "Return" -> visit_return_stmt(s, node)

---------------------------------------------------------------------------
(* lox.py.  Lox.run_file reads a source text and hands it to Lox.run; the  *)
(* texts below are the files the model runs.  They are written on one      *)
(* line, since the scanner turns every newline into a SEMICOLON token.     *)

\* fun counter(){ var i=0; fun inc(){ i=i+1; print i; } return inc; } var c=counter(); c(); c();
counter_program ==
    <<"f", "u", "n", " ", "c", "o", "u", "n", "t", "e", "r", "(", ")",
      "{", " ", "v", "a", "r", " ", "i", "=", "0", ";", " ", "f", "u",
      "n", " ", "i", "n", "c", "(", ")", "{", " ", "i", "=", "i", "+",
      "1", ";", " ", "p", "r", "i", "n", "t", " ", "i", ";", " ", "}",
      " ", "r", "e", "t", "u", "r", "n", " ", "i", "n", "c", ";", " ",
      "}", " ", "v", "a", "r", " ", "c", "=", "c", "o", "u", "n", "t",
      "e", "r", "(", ")", ";", " ", "c", "(", ")", ";", " ", "c", "(",
      ")", ";">>

\* fun mk(){ var i=0; fun inc(){ i=i+1; } fun get(){ print i; } inc(); get(); inc(); get(); } mk();
shared_frame_program ==
    <<"f", "u", "n", " ", "m", "k", "(", ")", "{", " ", "v", "a", "r",
      " ", "i", "=", "0", ";", " ", "f", "u", "n", " ", "i", "n", "c",
      "(", ")", "{", " ", "i", "=", "i", "+", "1", ";", " ", "}", " ",
      "f", "u", "n", " ", "g", "e", "t", "(", ")", "{", " ", "p", "r",
      "i", "n", "t", " ", "i", ";", " ", "}", " ", "i", "n", "c", "(",
      ")", ";", " ", "g", "e", "t", "(", ")", ";", " ", "i", "n", "c",
      "(", ")", ";", " ", "g", "e", "t", "(", ")", ";", " ", "}", " ",
      "m", "k", "(", ")", ";">>

\* class A{ speak(){ print "A"; } } class B<A{ speak(){ super.speak(); print "B"; } } B().speak();
inheritance_program ==
    <<"c", "l", "a", "s", "s", " ", "A", "{", " ", "s", "p", "e", "a",
      "k", "(", ")", "{", " ", "p", "r", "i", "n", "t", " ", "\"", "A",
      "\"", ";", " ", "}", " ", "}", " ", "c", "l", "a", "s", "s", " ",
      "B", "<", "A", "{", " ", "s", "p", "e", "a", "k", "(", ")", "{",
      " ", "s", "u", "p", "e", "r", ".", "s", "p", "e", "a", "k", "(",
      ")", ";", " ", "p", "r", "i", "n", "t", " ", "\"", "B", "\"", ";",
      " ", "}", " ", "}", " ", "B", "(", ")", ".", "s", "p", "e", "a",
      "k", "(", ")", ";">>

\* class C{ init(){ return; } } print C();
init_return_program ==
    <<"c", "l", "a", "s", "s", " ", "C", "{", " ", "i", "n", "i", "t",
      "(", ")", "{", " ", "r", "e", "t", "u", "r", "n", ";", " ", "}",
      " ", "}", " ", "p", "r", "i", "n", "t", " ", "C", "(", ")", ";">>

\* class C{ init(){ this.x = 1; } } print C();
init_program ==
    <<"c", "l", "a", "s", "s", " ", "C", "{", " ", "i", "n", "i", "t",
      "(", ")", "{", " ", "t", "h", "i", "s", ".", "x", " ", "=", " ",
      "1", ";", " ", "}", " ", "}", " ", "p", "r", "i", "n", "t", " ",
      "C", "(", ")", ";">>

\* var a = 1; print a; a = 2; print a/0; print 3;
abort_program ==
    <<"v", "a", "r", " ", "a", " ", "=", " ", "1", ";", " ", "p", "r",
      "i", "n", "t", " ", "a", ";", " ", "a", " ", "=", " ", "2", ";",
      " ", "p", "r", "i", "n", "t", " ", "a", "/", "0", ";", " ", "p",
      "r", "i", "n", "t", " ", "3", ";">>

\* var g = 1; fun f(n) { g = g + n; print g; h = 3; } { var k = 2; f(k); }
globals_program ==
    <<"v", "a", "r", " ", "g", " ", "=", " ", "1", ";", " ", "f", "u",
      "n", " ", "f", "(", "n", ")", " ", "{", " ", "g", " ", "=", " ",
      "g", " ", "+", " ", "n", ";", " ", "p", "r", "i", "n", "t", " ",
      "g", ";", " ", "h", " ", "=", " ", "3", ";", " ", "}", " ", "{",
      " ", "v", "a", "r", " ", "k", " ", "=", " ", "2", ";", " ", "f",
      "(", "k", ")", ";", " ", "}">>

\* fun f(a, b) { print a - b; } f(3, 1); f(1); print 9;
arity_program ==
    <<"f", "u", "n", " ", "f", "(", "a", ",", " ", "b", ")", " ", "{",
      " ", "p", "r", "i", "n", "t", " ", "a", " ", "-", " ", "b", ";",
      " ", "}", " ", "f", "(", "3", ",", " ", "1", ")", ";", " ", "f",
      "(", "1", ")", ";", " ", "p", "r", "i", "n", "t", " ", "9", ";">>

\* fun g(a) { print a; } g(1, 2); print 9;
surplus_program ==
    <<"f", "u", "n", " ", "g", "(", "a", ")", " ", "{", " ", "p", "r",
      "i", "n", "t", " ", "a", ";", " ", "}", " ", "g", "(", "1", ",",
      " ", "2", ")", ";", " ", "p", "r", "i", "n", "t", " ", "9", ";">>

\* class A { m() {} } var a = A(); a.m = 1; print a.m;
property_program ==
    <<"c", "l", "a", "s", "s", " ", "A", " ", "{", " ", "m", "(", ")",
      " ", "{", "}", " ", "}", " ", "v", "a", "r", " ", "a", " ", "=",
      " ", "A", "(", ")", ";", " ", "a", ".", "m", " ", "=", " ", "1",
      ";", " ", "p", "r", "i", "n", "t", " ", "a", ".", "m", ";">>

\* class A {} fun f() { class B < A { m() {} } { print nil.x; } } { f(); } print 2;
depth_program ==
    <<"c", "l", "a", "s", "s", " ", "A", " ", "{", "}", " ", "f", "u",
      "n", " ", "f", "(", ")", " ", "{", " ", "c", "l", "a", "s", "s",
      " ", "B", " ", "<", " ", "A", " ", "{", " ", "m", "(", ")", " ",
      "{", "}", " ", "}", " ", "{", " ", "p", "r", "i", "n", "t", " ",
      "n", "i", "l", ".", "x", ";", " ", "}", " ", "}", " ", "{", " ",
      "f", "(", ")", ";", " ", "}", " ", "p", "r", "i", "n", "t", " ",
      "2", ";">>

\* var a = 0; fun p(x) { print x; return x; } a(a = 1, p(2)); print 9;
noncallable_program ==
    <<"v", "a", "r", " ", "a", " ", "=", " ", "0", ";", " ", "f", "u",
      "n", " ", "p", "(", "x", ")", " ", "{", " ", "p", "r", "i", "n",
      "t", " ", "x", ";", " ", "r", "e", "t", "u", "r", "n", " ", "x",
      ";", " ", "}", " ", "a", "(", "a", " ", "=", " ", "1", ",", " ",
      "p", "(", "2", ")", ")", ";", " ", "p", "r", "i", "n", "t", " ",
      "9", ";">>

\* fun p(x) { print x; return p; } p(0)(p(1), p(2)); print 9;
miscount_program ==
    <<"f", "u", "n", " ", "p", "(", "x", ")", " ", "{", " ", "p", "r",
      "i", "n", "t", " ", "x", ";", " ", "r", "e", "t", "u", "r", "n",
      " ", "p", ";", " ", "}", " ", "p", "(", "0", ")", "(", "p", "(",
      "1", ")", ",", " ", "p", "(", "2", ")", ")", ";", " ", "p", "r",
      "i", "n", "t", " ", "9", ";">>

\* var A = 1; { class B < A { m() {} } } print 2;
superclass_program ==
    <<"v", "a", "r", " ", "A", " ", "=", " ", "1", ";", " ", "{", " ",
      "c", "l", "a", "s", "s", " ", "B", " ", "<", " ", "A", " ", "{",
      " ", "m", "(", ")", " ", "{", "}", " ", "}", " ", "}", " ", "p",
      "r", "i", "n", "t", " ", "2", ";">>

Programs ==
    {superclass_program, miscount_program, noncallable_program, depth_program, property_program, surplus_program, arity_program, globals_program, abort_program, counter_program, shared_frame_program, inheritance_program, init_return_program, init_program,
     \* fun f(n){ { if (n) return 1; { print 1/0; } } } { print f(true); { f(false); } }
     <<"f", "u", "n", " ", "f", "(", "n", ")", "{", " ", "{", " ", "i",
       "f", " ", "(", "n", ")", " ", "r", "e", "t", "u", "r", "n", " ",
       "1", ";", " ", "{", " ", "p", "r", "i", "n", "t", " ", "1", "/",
       "0", ";", " ", "}", " ", "}", " ", "}", " ", "{", " ", "p", "r",
       "i", "n", "t", " ", "f", "(", "t", "r", "u", "e", ")", ";", " ",
       "{", " ", "f", "(", "f", "a", "l", "s", "e", ")", ";", " ", "}",
       " ", "}">>,
     \* var i = 0; while (i < 3) { i = i + 1; } print i;
     <<"v", "a", "r", " ", "i", " ", "=", " ", "0", ";", " ", "w", "h",
       "i", "l", "e", " ", "(", "i", " ", "<", " ", "3", ")", " ", "{",
       " ", "i", " ", "=", " ", "i", " ", "+", " ", "1", ";", " ", "}",
       " ", "p", "r", "i", "n", "t", " ", "i", ";">>}

\* statements a source file is put together from
Fragments ==
    << \* print 1;
       <<"p", "r", "i", "n", "t", " ", "1", ";">>,
       \* print @;
       <<"p", "r", "i", "n", "t", " ", "@", ";">>,
       \* print ;
       <<"p", "r", "i", "n", "t", " ", ";">>,
       \* var a = 2;
       <<"v", "a", "r", " ", "a", " ", "=", " ", "2", ";">>,
       \* print 6/a;
       <<"p", "r", "i", "n", "t", " ", "6", "/", "a", ";">>,
       \* print 1/0;
       <<"p", "r", "i", "n", "t", " ", "1", "/", "0", ";">>,
       \* { var a = a; print 7; }
       <<"{", " ", "v", "a", "r", " ", "a", " ", "=", " ", "a", ";", " ",
         "p", "r", "i", "n", "t", " ", "7", ";", " ", "}">>,
       \* print 1/false;
       <<"p", "r", "i", "n", "t", " ", "1", "/", "f", "a", "l", "s", "e",
         ";">>,
       \* return 3;
       <<"r", "e", "t", "u", "r", "n", " ", "3", ";">>,
       \* { var b = 1; b = b + a; print b; }
       <<"{", " ", "v", "a", "r", " ", "b", " ", "=", " ", "1", ";", " ",
         "b", " ", "=", " ", "b", " ", "+", " ", "a", ";", " ", "p", "r",
         "i", "n", "t", " ", "b", ";", " ", "}">> >>
MaxFragments == 2

RECURSIVE join(_)
join(fs) == IF fs = <<>> THEN <<>> ELSE Fragments[Head(fs)] \o <<" ">> \o join(Tail(fs))

\* class A { init(a, b) {} m() {} } class B < A { m() {} n() {} } class C < B { init(x) {} } class D {}
chain_classes ==
    <<"c", "l", "a", "s", "s", " ", "A", " ", "{", " ", "i", "n", "i",
      "t", "(", "a", ",", " ", "b", ")", " ", "{", "}", " ", "m", "(",
      ")", " ", "{", "}", " ", "}", " ", "c", "l", "a", "s", "s", " ",
      "B", " ", "<", " ", "A", " ", "{", " ", "m", "(", ")", " ", "{",
      "}", " ", "n", "(", ")", " ", "{", "}", " ", "}", " ", "c", "l",
      "a", "s", "s", " ", "C", " ", "<", " ", "B", " ", "{", " ", "i",
      "n", "i", "t", "(", "x", ")", " ", "{", "}", " ", "}", " ", "c",
      "l", "a", "s", "s", " ", "D", " ", "{", "}", " ">>

\* the calls that follow chain_classes
chain_calls ==
    <<
       \* A(1);
       <<"A", "(", "1", ")", ";">>,
       \* B(1);
       <<"B", "(", "1", ")", ";">>,
       \* C();
       <<"C", "(", ")", ";">>,
       \* D(1);
       <<"D", "(", "1", ")", ";">>,
       \* B(1, 2);
       <<"B", "(", "1", ",", " ", "2", ")", ";">> >>

ChainPrograms == {chain_classes \o chain_calls[i] : i \in DOMAIN chain_calls}

Sources ==
    Programs \cup ChainPrograms
    \cup {join(fs) : fs \in UNION {[1..n -> 1..Len(Fragments)] : n \in 0..MaxFragments}}

\* the pieces of the texts of ParseSources, each followed by a blank
ParseFragments ==
    <<
       \* var
       <<"v", "a", "r", " ">>,
       \* print
       <<"p", "r", "i", "n", "t", " ">>,
       \* 1
       <<"1", " ">>,
       \* ;
       <<";", " ">>,
       \* x
       <<"x", " ">>,
       \* =
       <<"=", " ">>,
       \* (x)
       <<"(", "x", ")", " ">>,
       \* = 1;
       <<"=", " ", "1", ";", " ">>,
       \* print 2;
       <<"p", "r", "i", "n", "t", " ", "2", ";", " ">>,
       \* x.y
       <<"x", ".", "y", " ">>,
       \* {
       <<"{", " ">>,
       \* }
       <<"}", " ">>,
       \* a comment and the end of its line
       <<"/", "/", " ", "c", "\n">> >>

MaxParseFragments == 3

RECURSIVE parse_join(_)
parse_join(fs) == IF fs = <<>> THEN <<>> ELSE ParseFragments[Head(fs)] \o parse_join(Tail(fs))

ParseSources ==
    {parse_join(fs) : fs \in UNION {[1..n -> 1..Len(ParseFragments)] : n \in 0..MaxParseFragments}}

\* the declarations of the texts of ResolveSources
Declarations ==
    <<
       \* var x = x;
       <<"v", "a", "r", " ", "x", " ", "=", " ", "x", ";", " ">>,
       \* var x = 1;
       <<"v", "a", "r", " ", "x", " ", "=", " ", "1", ";", " ">>,
       \* var x = x + x;
       <<"v", "a", "r", " ", "x", " ", "=", " ", "x", " ", "+", " ", "x",
         ";", " ">>,
       \* var y = x;
       <<"v", "a", "r", " ", "y", " ", "=", " ", "x", ";", " ">>,
       \* var x = y;
       <<"v", "a", "r", " ", "x", " ", "=", " ", "y", ";", " ">>,
       \* var x;
       <<"v", "a", "r", " ", "x", ";", " ">>,
       \* var x = (x);
       <<"v", "a", "r", " ", "x", " ", "=", " ", "(", "x", ")", ";", " ">>,
       \* var x = x = 1;
       <<"v", "a", "r", " ", "x", " ", "=", " ", "x", " ", "=", " ", "1",
         ";", " ">>,
       \* var x = -x;
       <<"v", "a", "r", " ", "x", " ", "=", " ", "-", "x", ";", " ">> >>

MaxDeclarations == 2

\* the declarations ds one after the other, declaration i and all that
\* follows it enclosed in a block when opens[i]
RECURSIVE nest(_, _, _)
nest(ds, opens, i) ==
    IF i > Len(ds) THEN <<>>
    ELSE (IF opens[i] THEN <<"{", " ">> ELSE <<>>) \o Declarations[ds[i]]
         \o nest(ds, opens, i + 1) \o (IF opens[i] THEN <<"}", " ">> ELSE <<>>)

\* what opens and what closes a function, a method, a block or a class body
Opens ==
    <<
       \* fun f() {
       <<"f", "u", "n", " ", "f", "(", ")", " ", "{", " ">>,
       \* class A { init() {
       <<"c", "l", "a", "s", "s", " ", "A", " ", "{", " ", "i", "n", "i",
         "t", "(", ")", " ", "{", " ">>,
       \* class A { m() {
       <<"c", "l", "a", "s", "s", " ", "A", " ", "{", " ", "m", "(", ")",
         " ", "{", " ">>,
       \* {
       <<"{", " ">>,
       \* class A < A { m() {
       <<"c", "l", "a", "s", "s", " ", "A", " ", "<", " ", "A", " ", "{",
         " ", "m", "(", ")", " ", "{", " ">> >>

Closes ==
    <<
       \* }
       <<"}", " ">>,
       \* } }
       <<"}", " ", "}", " ">>,
       \* } }
       <<"}", " ", "}", " ">>,
       \* }
       <<"}", " ">>,
       \* } }
       <<"}", " ", "}", " ">> >>

\* the statements put inside and after the bodies
Items ==
    <<
       \* (nothing)
       <<>>,
       \* return;
       <<"r", "e", "t", "u", "r", "n", ";", " ">>,
       \* return 1;
       <<"r", "e", "t", "u", "r", "n", " ", "1", ";", " ">>,
       \* print this;
       <<"p", "r", "i", "n", "t", " ", "t", "h", "i", "s", ";", " ">>,
       \* print super.m;
       <<"p", "r", "i", "n", "t", " ", "s", "u", "p", "e", "r", ".", "m",
         ";", " ">> >>

MaxNesting == 2

\* the bodies ws[i..] one inside the other around item a, each body followed
\* by item b
RECURSIVE body(_, _, _, _)
body(ws, i, a, b) ==
    IF i > Len(ws) THEN Items[a]
    ELSE Opens[ws[i]] \o body(ws, i + 1, a, b) \o Items[b] \o Closes[ws[i]]

MarkerSources ==
    UNION {{body(ws, 1, a, b) \o Items[b] :
                ws \in [1..n -> 1..Len(Opens)], a \in 2..Len(Items), b \in 1..Len(Items)} :
           n \in 0..MaxNesting}

DeclarationSources ==
    UNION {{nest(ds, opens, 1) : ds \in [1..n -> 1..Len(Declarations)],
                                opens \in [1..n -> BOOLEAN]} : n \in 0..MaxDeclarations}

ResolveSources == DeclarationSources \cup MarkerSources

\* every text of at most MaxScanLen characters of ScanAlphabet
ScanAlphabet == {"\n", "\"", "@", "/", "1", "²", ";"}
MaxScanLen == 4
ScanSources == UNION {[1..n -> ScanAlphabet] : n \in 0..MaxScanLen}

\* an interpret whose loop goes on after the except clause
interpret_goes_on(s, stmts, i) ==
    LET caught(r) ==
            [interp |-> r.s,
             reports |-> IF r.sig = "error"
                         THEN <<error("runtime", r.tok.line, r.tok, r.msg)>>
                         ELSE <<>>,
             pc |-> CASE r.sig \in {"ok", "error"} -> "interpret"
                      [] OTHER -> "uncaught"]
    IN caught(execute(s, stmts[i]))

\* Source files that apply one operator or one test of truth to literal
\* operands: nil, the booleans, numbers, strings, a function and a class.
\* fun f(){} class C{}
Prelude ==
    <<"f", "u", "n", " ", "f", "(", ")", "{", "}", " ", "c", "l", "a",
      "s", "s", " ", "C", "{", "}", " ">>

OperandTexts ==
    <<<<"n", "i", "l">>,
      <<"t", "r", "u", "e">>,
      <<"f", "a", "l", "s", "e">>,
      <<"0">>,
      <<"1">>,
      <<"2">>,
      <<"\"", "\"">>,
      <<"\"", "a", "\"">>,
      <<"f">>,
      <<"C">>>>

OperandValues ==
    <<Nil, Bool(TRUE), Bool(FALSE), Num(0, 1), Num(1, 1), Num(2, 1), Str(<<>>), Str(<<"a">>), FnVal(1), ClassVal(1)>>

OperatorTexts ==
    <<<<"-">>,
      <<"*">>,
      <<"<">>,
      <<"<", "=">>,
      <<">">>,
      <<">", "=">>,
      <<"/">>,
      <<"+">>,
      <<"=", "=">>,
      <<"!", "=">>>>

Text_print == <<"p", "r", "i", "n", "t", " ">>
Text_semicolon == <<";">>

\* fun f(){} class C{} print <left><operator><right>;
OperatorSource(left, operator, right) ==
    Prelude \o Text_print \o OperandTexts[left] \o <<" ">> \o OperatorTexts[operator]
        \o <<" ">> \o OperandTexts[right] \o Text_semicolon

TruthForms == {"if", "while", "and", "or", "!"}

\* a program that shows whether the operand counts as true
TruthSource(x, form) ==
    Prelude \o
    CASE form = "if" ->
           <<"i", "f", " ", "(">> \o OperandTexts[x] \o <<")", " ", "p", "r", "i", "n", "t", " ", "1", ";", " ", "e", "l",
  "s", "e", " ", "p", "r", "i", "n", "t", " ", "0", ";">>
      [] form = "while" ->
           <<"v", "a", "r", " ", "x", " ", "=", " ">> \o OperandTexts[x] \o <<";", " ", "w", "h", "i", "l", "e", " ", "(", "x", ")", " ", "{",
  " ", "p", "r", "i", "n", "t", " ", "1", ";", " ", "x", " ", "=",
  " ", "n", "i", "l", ";", " ", "}">>
      [] form = "and" -> Text_print \o OperandTexts[x] \o <<" ", "a", "n", "d", " ", "1", ";">>
      [] form = "or" -> Text_print \o OperandTexts[x] \o <<" ", "o", "r", " ", "1", ";">>
      [] form = "!" -> Text_print \o <<"!">> \o OperandTexts[x] \o Text_semicolon

LogicalTexts == [and |-> <<"a", "n", "d">>, or |-> <<"o", "r">>]

\* fun f(){} class C{} var a = 9; print <left> <operator> (a = <right>); print a;
LogicalSource(left, operator, right) ==
    Prelude \o <<"v", "a", "r", " ", "a", " ", "=", " ", "9", ";", " ">>
        \o Text_print \o OperandTexts[left] \o <<" ">> \o LogicalTexts[operator]
        \o <<" ", "(", "a", " ", "=", " ">> \o OperandTexts[right] \o <<")", ";", " ">>
        \o Text_print \o <<"a">> \o Text_semicolon

ValueSources ==
    {OperatorSource(l, o, r) : l \in DOMAIN OperandTexts, o \in DOMAIN OperatorTexts,
                               r \in DOMAIN OperandTexts}
    \cup {TruthSource(x, form) : x \in DOMAIN OperandTexts, form \in TruthForms}
    \cup {LogicalSource(l, o, r) : l \in DOMAIN OperandTexts, o \in DOMAIN LogicalTexts,
                                  r \in DOMAIN OperandTexts}

\* Interpreter.interpret, one turn of its loop: the interpreter after
\* stmts[i], what the except clause writes to stderr, and where control goes
\* ("interpret": the loop goes on, "exit": interpret returns, "uncaught": an
\* exception that is not a RuntimeErr leaves interpret)
interpret(s, stmts, i) ==
    LET caught(r) ==
            [interp |-> r.s,
             reports |-> IF r.sig = "error"
                         THEN <<error("runtime", r.tok.line, r.tok, r.msg)>>
                         ELSE <<>>,
             pc |-> CASE r.sig = "ok" -> "interpret"
                      [] r.sig = "error" -> "exit"
                      [] OTHER -> "uncaught"]
    IN caught(execute(s, stmts[i]))

Init ==
    /\ source \in Sources
    /\ pc = "scan"
    /\ tokens = <<>>
    /\ statements = <<>>
    /\ parser_errors = <<>>
    /\ had_err = FALSE
    /\ Lox_had_error = FALSE
    /\ Lox_had_runtime_error = FALSE
    /\ stderr = <<>>
    /\ interp = Interpreter
    /\ ip = 1
    /\ exit_code = -1

\* Lox.run: scanner = Scanner(source); tokens = scanner.scan_tokens()
Scan ==
    /\ pc = "scan"
    /\ \E scanner \in {scan_tokens(source)} :
       /\ tokens' = IF scanner.raised # "" THEN <<>> ELSE scanner.tokens
       /\ stderr' = stderr \o scanner.reports
       /\ had_err' = (had_err \/ scanner.reports # <<>>)
       /\ pc' = IF scanner.raised # "" THEN "uncaught" ELSE "parse"
    /\ UNCHANGED <<source, statements, parser_errors, Lox_had_error,
                   Lox_had_runtime_error, interp, ip, exit_code>>

\* Lox.run: parser = Parser(tokens); statements = parser.parse();
\* if Lox.had_error: return
Parse ==
    /\ pc = "parse"
    /\ \E parser \in {parse(tokens)} :
       /\ statements' = parser.node
       /\ parser_errors' = parser.p.errors
    /\ pc' = IF Lox_had_error THEN "exit" ELSE "resolve"
    /\ UNCHANGED <<source, tokens, had_err, Lox_had_error, Lox_had_runtime_error,
                   stderr, interp, ip, exit_code>>

\* Lox.run: resolver = Resolver(self.interpreter); resolver.resolve(statements);
\* if Lox.had_error: return
Resolve ==
    /\ pc = "resolve"
    /\ \E resolver \in {resolve(Resolver(interp.locals), statements)} :
       /\ interp' = [interp EXCEPT !.locals = resolver.locals]
       /\ stderr' = stderr \o resolver.reports
       /\ had_err' = (had_err \/ resolver.reports # <<>>)
    /\ pc' = IF Lox_had_error THEN "exit" ELSE "interpret"
    /\ UNCHANGED <<source, tokens, statements, parser_errors, Lox_had_error,
                   Lox_had_runtime_error, ip, exit_code>>

\* Lox.run: self.interpreter.interpret(statements), a statement at a time
Interpret ==
    /\ pc = "interpret"
    /\ IF ip <= Len(statements)
       THEN \E r \in {interpret(interp, statements, ip)} :
            /\ interp' = r.interp
            /\ stderr' = stderr \o r.reports
            /\ had_err' = (had_err \/ r.reports # <<>>)
            /\ pc' = r.pc
            /\ ip' = ip + 1
       ELSE /\ pc' = "exit"
            /\ UNCHANGED <<interp, stderr, had_err, ip>>
    /\ UNCHANGED <<source, tokens, statements, parser_errors, Lox_had_error,
                   Lox_had_runtime_error, exit_code>>

\* Lox.run_file after run(source): sys.exit(65), sys.exit(70) or the end of
\* the script; an uncaught exception ends the process with status 1
Exit ==
    /\ pc \in {"exit", "uncaught"}
    /\ exit_code' = IF pc = "uncaught" THEN 1
                    ELSE IF Lox_had_error THEN 65
                    ELSE IF Lox_had_runtime_error THEN 70
                    ELSE 0
    /\ pc' = "done"
    /\ UNCHANGED <<source, tokens, statements, parser_errors, had_err, Lox_had_error,
                   Lox_had_runtime_error, stderr, interp, ip>>

Next == Scan \/ Parse \/ Resolve \/ Interpret \/ Exit

Spec == Init /\ [][Next]_vars

\* the runs of Lox.run_file on the files of ScanSources
ScanInit ==
    /\ source \in ScanSources
    /\ pc = "scan"
    /\ tokens = <<>>
    /\ statements = <<>>
    /\ parser_errors = <<>>
    /\ had_err = FALSE
    /\ Lox_had_error = FALSE
    /\ Lox_had_runtime_error = FALSE
    /\ stderr = <<>>
    /\ interp = Interpreter
    /\ ip = 1
    /\ exit_code = -1

ScanSpec == ScanInit /\ [][Next]_vars

\* the runs of Lox.run_file on the files of ParseSources
ParseInit ==
    /\ source \in ParseSources
    /\ pc = "scan"
    /\ tokens = <<>>
    /\ statements = <<>>
    /\ parser_errors = <<>>
    /\ had_err = FALSE
    /\ Lox_had_error = FALSE
    /\ Lox_had_runtime_error = FALSE
    /\ stderr = <<>>
    /\ interp = Interpreter
    /\ ip = 1
    /\ exit_code = -1

ParseSpec == ParseInit /\ [][Next]_vars

\* the runs of Lox.run_file on the files of ResolveSources
ResolveInit ==
    /\ source \in ResolveSources
    /\ pc = "scan"
    /\ tokens = <<>>
    /\ statements = <<>>
    /\ parser_errors = <<>>
    /\ had_err = FALSE
    /\ Lox_had_error = FALSE
    /\ Lox_had_runtime_error = FALSE
    /\ stderr = <<>>
    /\ interp = Interpreter
    /\ ip = 1
    /\ exit_code = -1

ResolveSpec == ResolveInit /\ [][Next]_vars

\* the runs of Lox.run_file on the files of ValueSources
ValueInit ==
    /\ source \in ValueSources
    /\ pc = "scan"
    /\ tokens = <<>>
    /\ statements = <<>>
    /\ parser_errors = <<>>
    /\ had_err = FALSE
    /\ Lox_had_error = FALSE
    /\ Lox_had_runtime_error = FALSE
    /\ stderr = <<>>
    /\ interp = Interpreter
    /\ ip = 1
    /\ exit_code = -1

ValueSpec == ValueInit /\ [][Next]_vars

---------------------------------------------------------------------------
(* The properties of the specification, each stated over the runs of Spec  *)
(* unless another specification is named.                                  *)

Reported(kind) == \E i \in DOMAIN stderr : stderr[i].kind = kind
Events(ev) == {i \in DOMAIN interp.trace : interp.trace[i].ev = ev}
IsPrefix(a, b) == Len(a) <= Len(b) /\ SubSeq(b, 1, Len(a)) = a

\* C1: when the scanner or the parser has recorded a diagnostic, run() goes
\* on to neither resolution nor interpretation, and the interpreter is as
\* it was constructed (nothing printed, no global, no resolved distance).
C1_FailFastAfterSyntax ==
    (pc # "scan" /\ pc # "parse" /\ (Reported("lexical") \/ parser_errors # <<>>))
        => /\ pc \notin {"resolve", "interpret"}
           /\ interp = Interpreter

C3_NoInterpretAfterStatic ==
    Reported("static") => ip = 1 /\ interp.out = <<>>

\* C4: a function holds the frame that was current at its declaration, every
\* call runs in a new frame whose parent is that frame, and so the calls of
\* the counter program print 1 then 2, as do the two functions that share a
\* frame.
C4_ClosureSharesFrame ==
    /\ \A i \in Events("function") :
          interp.functions[interp.trace[i].fn].closure = interp.trace[i].environment
    /\ \A i \in Events("call") :
          /\ interp.trace[i].enclosing = interp.functions[interp.trace[i].fn].closure
          /\ interp.trace[i].environment = interp.trace[i].frames + 1
    /\ (source \in {counter_program, shared_frame_program} /\ pc = "done")
          => interp.out = <<Num(1, 1), Num(2, 1)>>

C4_Witness ==
    /\ source = counter_program /\ pc = "done"
    /\ Cardinality(Events("call")) = 3
    /\ interp.out = <<Num(1, 1), Num(2, 1)>>

\* C5: execute_block leaves the current environment as it found it, whether
\* the block ends normally, by a Return or by a runtime error.
C5_BlockRestoresEnvironment ==
    \A i \in Events("execute_block") : interp.trace[i].left = interp.trace[i].entered

C5_Witness ==
    /\ \E i \in Events("execute_block") :
          interp.trace[i].sig = "return" /\ interp.trace[i].entered # GLOBALS
    /\ \E i \in Events("execute_block") :
          interp.trace[i].sig = "error" /\ interp.trace[i].entered # GLOBALS

\* C6: the inheritance program runs without a diagnostic and prints A then
\* B: super.speak() finds the method of the superclass and binds it to the
\* instance.
C6_SuperCallRuns ==
    (source = inheritance_program /\ pc = "done")
        => /\ stderr = <<>> /\ parser_errors = <<>>
           /\ exit_code # 1
           /\ interp.out = <<Str(<<"A">>), Str(<<"B">>)>>

\* C7: calling a class that has an init method completes without error and
\* yields the new instance, with or without a bare return in init.
C7_InitializerYieldsInstance ==
    (source \in {init_return_program, init_program} /\ pc = "done")
        => /\ stderr = <<>> /\ exit_code # 1
           /\ Len(interp.out) = 1 /\ interp.out[1].t = "inst"

\* C8: a statement that raises a runtime error ends interpret(): the error
\* is written once, no later statement runs (the interpreter no longer
\* changes), and what was printed before remains.
C8_RuntimeErrorAborts ==
    [][/\ (pc = "interpret" /\ ip <= Len(statements)
           /\ execute(interp, statements[ip]).sig = "error")
          => /\ pc' = "exit"
             /\ Len(stderr') = Len(stderr) + 1
             /\ stderr'[Len(stderr')].kind = "runtime"
             /\ IsPrefix(interp.out, interp'.out)
       /\ (pc \in {"exit", "done"} => interp' = interp /\ stderr' = stderr)
       /\ Cardinality({i \in DOMAIN stderr' : stderr'[i].kind = "runtime"}) <= 1]_vars

C8_Witness ==
    /\ source = abort_program /\ pc = "done"
    /\ Reported("runtime")
    /\ ip <= Len(statements)
    /\ interp.out = <<Num(1, 1)>>
    /\ interp.envs[GLOBALS].values[<<"a">>] = Num(2, 1)

\* C9: the process ends with code 65 after a scan or parse diagnostic and
\* with code 70 after a runtime error, and with neither code otherwise.
C9_ExitCodes ==
    pc = "done" =>
        /\ (Reported("lexical") \/ parser_errors # <<>>) => exit_code = 65
        /\ (Reported("runtime") /\ ~Reported("lexical") /\ parser_errors = <<>>)
              => exit_code = 70
        /\ stderr = <<>> /\ parser_errors = <<>> => exit_code \notin {65, 70}

\* C10: `/` on two numbers with a zero divisor raises "Can't divide by
\* zero." and gives no quotient; that error is raised for no divisor other
\* than the number zero, and two numbers never raise "Operands must be
\* numbers."
C10_DivideByZero ==
    \A i \in Events("binary") :
        LET e == interp.trace[i] IN
        e.operator = "SLASH" =>
            /\ (e.left.t = "num" /\ e.right.t = "num" /\ e.right.n = 0)
                  => e.sig = "error" /\ e.msg = "Can't divide by zero."
            /\ e.msg = "Can't divide by zero." => e.right.t = "num" /\ e.right.n = 0
            /\ (e.left.t = "num" /\ e.right.t = "num") => e.msg # "Operands must be numbers."

\* C11: a read or an assignment of a name without a recorded distance looks
\* at the global frame alone: it succeeds exactly when the name is bound
\* there, with the value bound there, and otherwise raises "Undefined
\* variable '<name>'."; a failed assignment changes no frame and a
\* successful one changes the global frame only.
C11_UnresolvedNamesAreGlobal ==
    \A i \in Events("globals.get") \cup Events("globals.assign") :
        LET e == interp.trace[i] IN
        /\ e.defined <=> e.sig = "ok"
        /\ ~e.defined => /\ e.sig = "error"
                         /\ e.msg = MsgName("Undefined variable '{}'.", e.name)
                         /\ e.after = e.before
        /\ (e.defined /\ e.ev = "globals.get")
              => e.v = e.before[GLOBALS].values[e.name] /\ e.after = e.before
        /\ (e.defined /\ e.ev = "globals.assign")
              => /\ e.after[GLOBALS].values[e.name] = e.v
                 /\ \A f \in DOMAIN e.before : f # GLOBALS => e.after[f] = e.before[f]
                 /\ DOMAIN e.after[GLOBALS].values = DOMAIN e.before[GLOBALS].values

C11_Witness ==
    /\ source = globals_program
    /\ \E i \in Events("globals.get") :
          interp.trace[i].environment # GLOBALS /\ interp.trace[i].sig = "ok"
    /\ \E i \in Events("globals.assign") :
          interp.trace[i].environment # GLOBALS /\ interp.trace[i].sig = "ok"
    /\ \E i \in Events("globals.assign") :
          /\ interp.trace[i].environment # GLOBALS /\ interp.trace[i].sig = "error"
          /\ interp.trace[i].name = <<"h">>

\* the runtime type of a value; functions and classes are both Callable
TypeOf(v) == IF v.t \in {"fn", "class"} THEN "callable" ELSE v.t

\* C12 (under ValueSpec): `==` on operands of different runtime types is
\* false and `!=` true, without coercion, and `!=` is the negation of `==`
\* on the same operands.
C12_EqualityNoCoercion ==
    \A i \in Events("binary") :
        LET e == interp.trace[i] IN
        e.operator \in {"EQUAL_EQUAL", "BANG_EQUAL"} =>
            /\ e.sig = "ok"
            /\ TypeOf(e.left) # TypeOf(e.right) => e.v = Bool(e.operator = "BANG_EQUAL")
            /\ e.v = Bool(is_equal(e.left, e.right) <=> e.operator = "EQUAL_EQUAL")

\* C13 (under ValueSpec): `-`, `*`, `<`, `<=`, `>`, `>=` raise "Operands
\* must be numbers." whenever an operand is not a number, booleans included,
\* and give a result only for two numbers.
C13_OperandsMustBeNumbers ==
    \A i \in Events("binary") :
        LET e == interp.trace[i] IN
        e.operator \in {"MINUS", "STAR", "LESS", "LESS_EQUAL", "GREATER", "GREATER_EQUAL"} =>
            IF e.left.t = "num" /\ e.right.t = "num"
            THEN e.sig = "ok" /\ e.v.t = (IF e.operator \in {"MINUS", "STAR"} THEN "num" ELSE "bool")
            ELSE e.sig = "error" /\ e.msg = "Operands must be numbers."

\* what the truth program of operand x prints when x is falsy or truthy
TruthOutput(x, form, falsy) ==
    CASE form = "if" -> <<IF falsy THEN Num(0, 1) ELSE Num(1, 1)>>
      [] form = "while" -> IF falsy THEN <<>> ELSE <<Num(1, 1)>>
      [] form = "and" -> <<IF falsy THEN OperandValues[x] ELSE Num(1, 1)>>
      [] form = "or" -> <<IF falsy THEN Num(1, 1) ELSE OperandValues[x]>>
      [] form = "!" -> <<Bool(falsy)>>

\* C14 (under ValueSpec): `if`, `while`, `and`, `or` and `!` treat exactly
\* nil, false, the number zero and the empty string as false, and every
\* other value (other numbers and strings, true, functions, classes) as true.
C14_Truthiness ==
    \A x \in DOMAIN OperandTexts, form \in TruthForms :
        (source = TruthSource(x, form) /\ pc = "done")
            => /\ stderr = <<>> /\ exit_code = 0
               /\ interp.out =
                    TruthOutput(x, form,
                                OperandValues[x] \in {Nil, Bool(FALSE), Num(0, 1), Str(<<>>)})

C14_Witness ==
    \/ /\ \E x \in DOMAIN OperandTexts :
            OperandValues[x] = Str(<<>>) /\ source = TruthSource(x, "while")
       /\ pc = "done" /\ interp.out = <<>>
    \/ /\ \E x \in DOMAIN OperandTexts :
            OperandValues[x] = FnVal(1) /\ source = TruthSource(x, "and")
       /\ pc = "done" /\ interp.out = <<Num(1, 1)>>

\* the parameters the callee declares: those of the function, or of the
\* initializer of the class, none without an initializer
Declared(callee) ==
    IF callee.t = "fn" THEN interp.functions[callee.n].declaration.params
    ELSE IF find_method(interp, callee.n, INIT) = 0 THEN <<>>
    ELSE interp.functions[find_method(interp, callee.n, INIT)].declaration.params

\* C15: a call with a number of arguments other than the number of declared
\* parameters raises "Expected N arguments but got M.", enters no body,
\* creates no frame and binds nothing; a call of a function with exactly
\* that many arguments runs in a new frame under the closure of the function
\* in which each parameter is bound to the argument at its position.
C15_ArityChecked ==
    \A i \in Events("checked_call") :
        LET e == interp.trace[i]
            params == Declared(e.callee)
            mismatch == MsgCount("Expected {} arguments but got {}.",
                                 Len(params), Len(e.arguments))
        IN IF Len(e.arguments) # Len(params)
           THEN /\ e.sig = "error" /\ e.msg = mismatch
                /\ e.after = e.before /\ e.events = 0 /\ e.printed = 0
           ELSE /\ e.msg # mismatch
                /\ e.callee.t = "fn" =>
                     LET c == interp.trace[i - e.events] IN
                     /\ c.ev = "call" /\ c.fn = e.callee.n
                     /\ c.environment = Len(e.before) + 1
                     /\ c.enclosing = interp.functions[c.fn].closure
                     /\ DOMAIN c.values = {params[k].lexeme : k \in DOMAIN params}
                     /\ \A k \in DOMAIN params :
                          (\A j \in DOMAIN params : j > k => params[j].lexeme # params[k].lexeme)
                              => c.values[params[k].lexeme] = e.arguments[k]

C15_Witness ==
    /\ source = arity_program /\ pc = "done"
    /\ interp.out = <<Num(2, 1)>>
    /\ \E i, j \in Events("checked_call") :
          /\ i < j
          /\ interp.trace[i].sig = "ok" /\ Len(interp.trace[i].arguments) = 2
          /\ interp.trace[j].sig = "error" /\ Len(interp.trace[j].arguments) = 1

\* the number of newline characters of a text
RECURSIVE Newlines(_)
Newlines(text) ==
    IF text = <<>> THEN 0
    ELSE (IF Head(text) = "\n" THEN 1 ELSE 0) + Newlines(Tail(text))

\* C16 (under ScanSpec): for every source text scan_tokens returns, without
\* raising, a token list with exactly one EOF token, the last one, whose
\* line is 1 plus the number of newline characters of the text.
C16_ScanAlwaysReturns ==
    pc # "scan" =>
        /\ tokens # <<>>
        /\ \A i \in DOMAIN tokens : tokens[i].type = "EOF" <=> i = Len(tokens)
        /\ tokens[Len(tokens)].line = 1 + Newlines(source)

\* the same for the texts without a digit that is not a decimal one
C16_ScanReturnsOnDecimalDigits ==
    (pc # "scan" /\ \A i \in DOMAIN source : source[i] \notin OtherDigits) =>
        /\ tokens # <<>>
        /\ \A i \in DOMAIN tokens : tokens[i].type = "EOF" <=> i = Len(tokens)
        /\ tokens[Len(tokens)].line = 1 + Newlines(source)

\* C17: every diagnostic is written to standard error as a report of its
\* line, its place and its message; in particular each syntax error in the
\* list of the parser has a report of its line and message on standard error.
C17_EveryDiagnosticReported ==
    pc \notin {"scan", "parse"} =>
        \A i \in DOMAIN parser_errors :
            \E j \in DOMAIN stderr :
                /\ stderr[j].kind = "syntax"
                /\ stderr[j].line = parser_errors[i].line
                /\ stderr[j].msg = Msg(parser_errors[i].msg)

\* the token types at which synchronize() stops
Starts == {"CLASS", "FUN", "VAR", "FOR", "IF", "WHILE", "PRINT", "RETURN"}

\* the first position at or after the offending token (position c, counted
\* in tokens consumed) where a SEMICOLON has just been consumed or the next
\* token starts a statement or is EOF
RECURSIVE FirstResume(_, _, _)
FirstResume(toks, c, q) ==
    IF \/ toks[q + 1].type \in Starts \cup {"EOF"}
       \/ (q > c /\ toks[q].type = "SEMICOLON")
    THEN q
    ELSE FirstResume(toks, c, q + 1)

\* C18 (under ParseSpec): after a parse error in declaration() the parser
\* resumes at the first position at or after the offending token where a
\* SEMICOLON has just been consumed or the next token starts a statement or
\* is EOF, and a well-formed statement that begins there is in the result
\* of parse().
C18_ResumesAtFirstBoundary ==
    pc \notin {"scan", "parse"} =>
        \A i \in DOMAIN parse(tokens).p.synced :
            LET e == parse(tokens).p.synced[i]
                q == FirstResume(tokens, e.offending, e.offending)
                next == rule("declaration", tokens, [Parser(tokens) EXCEPT !.current = q])
            IN /\ e.resumed = q
               /\ (next.p.errors = <<>> /\ next.node.k # "None")
                     => \E j \in DOMAIN statements : statements[j] = next.node

\* C19 (under ParseSpec): when the left side of `=` is neither a Variable nor
\* a Get and the right side parses, assignment() records "Invalid assignment
\* target." once more, raises nothing, ends where the right side ends and
\* returns the left expression; the statement made of it is in the result of
\* parse() and what follows is parsed as it is when it stands alone.
C19_InvalidTargetGoesOn ==
    pc \notin {"scan", "parse"} =>
        \A c \in 0 .. Len(tokens) - 1 :
            LET start == [Parser(tokens) EXCEPT !.current = c]
                left == rule("or_expr", tokens, start)
                right == rule("assignment", tokens, p_advance(tokens, left.p))
                whole == rule("assignment", tokens, start)
            IN (/\ left.ok /\ left.node.k \notin {"Variable", "Get"}
                /\ p_check(tokens, left.p, "EQUAL")
                /\ right.ok)
               => /\ whole.ok
                  /\ whole.node = left.node
                  /\ whole.p.current = right.p.current
                  /\ whole.p.errors = right.p.errors
                        \o <<[line |-> p_peek(tokens, left.p).line,
                              msg |-> "Invalid assignment target."]>>
                  /\ (c = 0 /\ p_check(tokens, right.p, "SEMICOLON"))
                        => /\ statements # <<>>
                           /\ statements[1] = [k |-> "Expression", expression |-> left.node]
                           /\ Tail(statements) =
                                rule("parse", tokens, p_advance(tokens, right.p)).node

\* the file `1 = 1; print 2;` has run: one syntax error, two statements
C19_Witness ==
    /\ source = parse_join(<<3, 8, 9>>)
    /\ pc = "done"
    /\ parser_errors = <<[line |-> 1, msg |-> "Invalid assignment target."]>>
    /\ Len(statements) = 2
    /\ statements[1] = [k |-> "Expression", expression |-> Literal(Num(1, 1))]
    /\ interp.out = <<Num(2, 1)>>

\* the number of reads of the variable name in an expression
RECURSIVE Reads(_, _), ReadsOfAll(_, _)
Reads(expr, name) ==
    CASE expr.k = "Variable" -> IF expr.name.lexeme = name THEN 1 ELSE 0
      [] expr.k = "Assign" -> Reads(expr.value, name)
      [] expr.k \in {"Binary", "Logical"} -> Reads(expr.left, name) + Reads(expr.right, name)
      [] expr.k = "Call" -> Reads(expr.callee, name) + ReadsOfAll(expr.arguments, name)
      [] expr.k = "Get" -> Reads(expr.object, name)
      [] expr.k = "Set" -> Reads(expr.value, name) + Reads(expr.object, name)
      [] expr.k = "Unary" -> Reads(expr.right, name)
      [] expr.k = "Grouping" -> Reads(expr.expression, name)
      [] OTHER -> 0

ReadsOfAll(exprs, name) ==
    IF exprs = <<>> THEN 0 ELSE Reads(Head(exprs), name) + ReadsOfAll(Tail(exprs), name)

OwnInitializer == Msg("Can't read local variable in its own initializer.")

\* the reports of a sequence that carry the message OwnInitializer
Own(reports) == {j \in DOMAIN reports : reports[j].msg = OwnInitializer}

RECURSIVE OwnOfAll(_)
OwnOfAll(declared) ==
    IF declared = <<>> THEN 0
    ELSE Cardinality(Own(Head(declared).reported)) + OwnOfAll(Tail(declared))

\* C20 (under ResolveSpec): resolving `var x = <init>` in a local scope
\* reports "Can't read local variable in its own initializer." once for each
\* read of x in <init>, and so exactly when <init> reads x; at global level
\* it reports it never; no other place reports it; and after a local
\* declaration x is marked ready in its scope.
C20_OwnInitializer ==
    pc \notin {"scan", "parse", "resolve"} =>
        LET r == resolve(Resolver(EmptyDict), statements) IN
        /\ \A i \in DOMAIN r.declared :
              LET e == r.declared[i] IN
              IF e.depth = 0 THEN Own(e.reported) = {}
              ELSE /\ Cardinality(Own(e.reported)) = Reads(e.initializer, e.name)
                   /\ e.name \in DOMAIN e.scope /\ e.scope[e.name] = TRUE
        /\ Cardinality(Own(stderr)) = OwnOfAll(r.declared)

\* the file `{ var x = 1; { var x = x; } }` has run, with one such report
C20_Witness ==
    /\ source = nest(<<2, 1>>, <<TRUE, TRUE>>, 1)
    /\ pc = "done"
    /\ Cardinality(Own(stderr)) = 1
    /\ Len(resolve(Resolver(EmptyDict), statements).declared) = 2

TopLevelReturn == Msg("Can't return from top-level code.")
InitializerValue == Msg("Can't return a value from an initializer.")

\* the messages a return statement calls for when the innermost function
\* around it is of the kind fn ("None" when no function encloses it)
RECURSIVE ReturnReports(_, _), ReturnReportsOfAll(_, _)
ReturnReports(stmt, fn) ==
    CASE stmt.k = "Return" ->
           (IF fn = "None" THEN <<TopLevelReturn>> ELSE <<>>)
           \o (IF stmt.value.k # "None" /\ fn = "initializer" THEN <<InitializerValue>> ELSE <<>>)
      [] stmt.k = "Function" -> ReturnReportsOfAll(stmt.body, "function")
      [] stmt.k = "Class" ->
           ReturnReportsOfAll([i \in DOMAIN stmt.methods |->
                                  [stmt.methods[i] EXCEPT !.k =
                                      IF stmt.methods[i].name.lexeme = INIT
                                      THEN "Initializer" ELSE "Method"]], fn)
      [] stmt.k = "Initializer" -> ReturnReportsOfAll(stmt.body, "initializer")
      [] stmt.k = "Method" -> ReturnReportsOfAll(stmt.body, "method")
      [] stmt.k = "Block" -> ReturnReportsOfAll(stmt.statements, fn)
      [] stmt.k = "If" ->
           ReturnReports(stmt.then_branch, fn)
           \o (IF stmt.else_branch.k # "None" THEN ReturnReports(stmt.else_branch, fn)
               ELSE <<>>)
      [] stmt.k = "While" -> ReturnReports(stmt.body, fn)
      [] OTHER -> <<>>

ReturnReportsOfAll(stmts, fn) ==
    IF stmts = <<>> THEN <<>>
    ELSE ReturnReports(Head(stmts), fn) \o ReturnReportsOfAll(Tail(stmts), fn)

IsReturnReport(rep) == rep.msg \in {TopLevelReturn, InitializerValue}

\* the messages of the reports that satisfy Test, in their order
Messages(reports, Test(_)) ==
    [i \in DOMAIN SelectSeq(reports, Test) |-> SelectSeq(reports, Test)[i].msg]

\* C21 (under ResolveSpec): the resolver reports a return exactly when no
\* function encloses it and a return with a value exactly when the innermost
\* function around it is a method named init, whatever was declared before
\* it or around that function.
C21_ReturnLegality ==
    pc \notin {"scan", "parse", "resolve"} =>
        Messages(stderr, IsReturnReport) = ReturnReportsOfAll(statements, "None")

\* the file `class A { init() { fun f() { return 1; } return 1; } } return 1;`
\* has been resolved: the return in f is not reported, the two after it are
C21_Witness ==
    /\ source = body(<<2, 1>>, 1, 3, 3) \o Items[3]
    /\ pc \notin {"scan", "parse", "resolve"}
    /\ Messages(stderr, IsReturnReport) = <<InitializerValue, TopLevelReturn>>

\* the number of `this` expressions in an expression
RECURSIVE Thises(_), ThisesOfAll(_)
Thises(expr) ==
    CASE expr.k = "This" -> 1
      [] expr.k = "Assign" -> Thises(expr.value)
      [] expr.k \in {"Binary", "Logical"} -> Thises(expr.left) + Thises(expr.right)
      [] expr.k = "Call" -> Thises(expr.callee) + ThisesOfAll(expr.arguments)
      [] expr.k = "Get" -> Thises(expr.object)
      [] expr.k = "Set" -> Thises(expr.value) + Thises(expr.object)
      [] expr.k = "Unary" -> Thises(expr.right)
      [] expr.k = "Grouping" -> Thises(expr.expression)
      [] OTHER -> 0

ThisesOfAll(exprs) ==
    IF exprs = <<>> THEN 0 ELSE Thises(Head(exprs)) + ThisesOfAll(Tail(exprs))

\* the number of `this` expressions of a statement that stand outside every
\* class body, and the number of classes in it that name themselves as
\* superclass
RECURSIVE ThisOutside(_), ThisOutsideOfAll(_), SelfInheriting(_), SelfInheritingOfAll(_)
ThisOutside(stmt) ==
    CASE stmt.k \in {"Expression", "Print"} -> Thises(stmt.expression)
      [] stmt.k = "Var" -> Thises(stmt.initializer)
      [] stmt.k = "Return" -> Thises(stmt.value)
      [] stmt.k = "Function" -> ThisOutsideOfAll(stmt.body)
      [] stmt.k = "Block" -> ThisOutsideOfAll(stmt.statements)
      [] stmt.k = "If" -> Thises(stmt.condition) + ThisOutside(stmt.then_branch)
                          + ThisOutside(stmt.else_branch)
      [] stmt.k = "While" -> Thises(stmt.condition) + ThisOutside(stmt.body)
      [] OTHER -> 0

ThisOutsideOfAll(stmts) ==
    IF stmts = <<>> THEN 0 ELSE ThisOutside(Head(stmts)) + ThisOutsideOfAll(Tail(stmts))

SelfInheriting(stmt) ==
    CASE stmt.k = "Class" ->
           (IF stmt.superclass.k # "None" /\ stmt.superclass.name.lexeme = stmt.name.lexeme
            THEN 1 ELSE 0) + SelfInheritingOfAll(stmt.methods)
      [] stmt.k = "Function" -> SelfInheritingOfAll(stmt.body)
      [] stmt.k = "Block" -> SelfInheritingOfAll(stmt.statements)
      [] stmt.k = "If" -> SelfInheriting(stmt.then_branch) + SelfInheriting(stmt.else_branch)
      [] stmt.k = "While" -> SelfInheriting(stmt.body)
      [] OTHER -> 0

SelfInheritingOfAll(stmts) ==
    IF stmts = <<>> THEN 0 ELSE SelfInheriting(Head(stmts)) + SelfInheritingOfAll(Tail(stmts))

\* the number of reports on standard error with the message text
Count(text) == Cardinality({i \in DOMAIN stderr : stderr[i].msg = Msg(text)})

\* the `this` and self-inheritance parts of C22: one report for each `this`
\* outside every class body, none for one inside, one for each class that
\* inherits from itself
ThisAndSelfInheritance ==
    pc \notin {"scan", "parse", "resolve"} =>
        /\ Count("Can't use 'this' outside of a class.") = ThisOutsideOfAll(statements)
        /\ Count("A class can't inherit from itself.") = SelfInheritingOfAll(statements)

\* C22 (under ResolveSpec): the resolver reports every `this` and every
\* `super` outside all class bodies and none inside one, and every class
\* that inherits from itself; in a file without a class every `super` token
\* is outside all class bodies and so has its report.
C22_ThisAndSuperLegality ==
    pc \notin {"scan", "parse", "resolve"} =>
        /\ Count("Can't use 'this' outside of a class.") = ThisOutsideOfAll(statements)
        /\ Count("A class can't inherit from itself.") = SelfInheritingOfAll(statements)
        /\ (\A i \in DOMAIN tokens : tokens[i].type # "CLASS")
              => Count("Can't use 'super' outside of a class.")
                   = Cardinality({i \in DOMAIN tokens : tokens[i].type = "SUPER"})

\* C23: a property read on an instance yields the field of that name before
\* any method of that name, and a write stores into the instance's own
\* fields: the program that creates an instance of a class with a method m,
\* writes 1 to its m and prints its m, prints 1.
C23_FieldBeforeMethod ==
    (source = property_program /\ pc = "done") =>
        /\ interp.out = <<Num(1, 1)>>
        /\ exit_code = 0

\* the class k and the classes above it, nearest first
RECURSIVE Chain(_)
Chain(k) == IF k = 0 THEN <<>> ELSE <<k>> \o Chain(interp.classes[k].superclass)

\* the method called name of the nearest class of the chain of k that
\* defines one, 0 when none does
Nearest(k, name) ==
    LET defining == {i \in DOMAIN Chain(k) :
                        name \in DOMAIN interp.classes[Chain(k)[i]].methods}
    IN IF defining = {} THEN 0
       ELSE interp.classes[Chain(k)[CHOOSE i \in defining : \A j \in defining : i <= j]]
                .methods[name]

MethodNames == {INIT, <<"m">>, <<"n">>, <<"z">>}

\* C24: find_method yields the method of the nearest class on the
\* superclass chain that defines the name, none when no class does, and a
\* call of a class is checked against the number of parameters of the init
\* found this way, 0 when there is none.
C24_NearestMethod ==
    /\ \A k \in DOMAIN interp.classes, name \in MethodNames :
          find_method(interp, k, name) = Nearest(k, name)
    /\ \A i \in Events("checked_call") :
          LET e == interp.trace[i]
              init == Nearest(e.callee.n, INIT)
              n == IF init = 0 THEN 0 ELSE Len(interp.functions[init].declaration.params)
              mismatch == MsgCount("Expected {} arguments but got {}.", n, Len(e.arguments))
          IN e.callee.t = "class" =>
                IF Len(e.arguments) # n THEN e.sig = "error" /\ e.msg = mismatch
                ELSE e.msg # mismatch

\* `B(1);` has run, where B defines no init and its superclass A one with
\* two parameters
C24_Witness ==
    /\ source = chain_classes \o chain_calls[2]
    /\ pc = "done"
    /\ Len(interp.classes) = 4
    /\ \E i \in DOMAIN stderr :
          stderr[i].msg = MsgCount("Expected {} arguments but got {}.", 2, 1)

\* C25: when interpret() has returned, after the last statement or after a
\* runtime error raised at any depth of blocks, calls and class
\* declarations, the current environment of the interpreter is the global
\* frame.
C25_BackInGlobalFrame ==
    (pc = "exit" \/ (pc = "done" /\ exit_code # 1)) => interp.environment = GLOBALS

\* the run of depth_program was aborted inside a block inside a function
\* called from a block, after a class with a superclass was declared there
C25_Witness ==
    /\ source = depth_program /\ pc = "exit"
    /\ Reported("runtime")
    /\ Cardinality({i \in Events("execute_block") :
                       interp.trace[i].sig = "error" /\ interp.trace[i].entered # GLOBALS}) >= 2
    /\ Len(interp.classes) = 2
    /\ interp.environment = GLOBALS

\* C26 (under ParseSpec): a call of declaration() at a position before the
\* EOF token ends at a later position that is not past the EOF token,
\* whether it returns a statement or recovers from an error, from every
\* position of the token list and in every call that parse() makes, at top
\* level and inside blocks; and parse() returns with the parser at EOF.
C26_DeclarationAdvances ==
    /\ pc = "parse" =>
          \A c \in 0 .. Len(tokens) - 2 :
              LET d == rule("declaration", tokens, [Parser(tokens) EXCEPT !.current = c])
              IN c < d.p.current /\ d.p.current <= Len(tokens) - 1
    /\ pc \notin {"scan", "parse", "uncaught"} =>
          LET done == parse(tokens)
          IN /\ \A i \in DOMAIN done.p.calls :
                   done.p.calls[i].from < done.p.calls[i].to
                   /\ done.p.calls[i].to <= Len(tokens) - 1
             /\ done.p.current = Len(tokens) - 1
             /\ statements = done.node

\* the file `{ = print 2;` has been parsed: block() called declaration()
\* twice, at `=`, where it recovered from an error, and at `print`, and the
\* call at top level recovered from the error of the block that is not closed
C26_Witness ==
    /\ source = parse_join(<<11, 6, 9>>)
    /\ pc = "resolve"
    /\ Len(parser_errors) = 2
    /\ Len(parse(tokens).p.calls) = 3
    /\ \E i \in DOMAIN parse(tokens).p.calls : parse(tokens).p.calls[i].from > 0


\* the positions at which the loop of parse() calls declaration(), from
\* position c on
RECURSIVE TopCalls(_, _)
TopCalls(toks, c) ==
    IF toks[c + 1].type = "EOF" THEN {}
    ELSE {c} \cup TopCalls(toks, rule("declaration", toks,
                                      [Parser(toks) EXCEPT !.current = c]).p.current)

\* C27 (under ParseSpec): a call of declaration() that parse() or block()
\* makes at a SEMICOLON token records "Expect expression." with the line of
\* that token, returns no statement and ends right after that token; and
\* when the call is made by parse(), the result of parse() is the statements
\* of the tokens before it followed by the statements of the tokens after it.
C27_BlankStatementSkipped ==
    pc \notin {"scan", "parse", "uncaught"} =>
        /\ LET calls == parse(tokens).p.calls
           IN \A i \in DOMAIN calls :
                 LET c == calls[i].from
                     d == rule("declaration", tokens, [Parser(tokens) EXCEPT !.current = c])
                     entry == [line |-> tokens[c + 1].line, msg |-> "Expect expression."]
                 IN tokens[c + 1].type = "SEMICOLON" =>
                       /\ d.node = NoneNode
                       /\ d.p.errors = <<entry>>
                       /\ d.p.current = c + 1
                       /\ calls[i].to = c + 1
                       /\ \E j \in DOMAIN parser_errors : parser_errors[j] = entry
        /\ \A c \in TopCalls(tokens, 0) :
              tokens[c + 1].type = "SEMICOLON" =>
                  statements =
                      parse(SubSeq(tokens, 1, c) \o <<tokens[Len(tokens)]>>).node
                      \o rule("parse", tokens, [Parser(tokens) EXCEPT !.current = c + 1]).node

\* the file of the two lines `print 2; // c` and `print 2;` has been parsed:
\* the end of the first line is a SEMICOLON token of line 2 where a
\* statement is expected, and both print statements are in the result
C27_Witness ==
    /\ source = parse_join(<<9, 13, 9>>)
    /\ pc = "resolve"
    /\ parser_errors = <<[line |-> 2, msg |-> "Expect expression."]>>
    /\ Len(statements) = 2
    /\ 3 \in TopCalls(tokens, 0) /\ tokens[4].type = "SEMICOLON"

\* the expressions exprs[i], exprs[i + 1], ... evaluated one after another,
\* each in the state the one before it left: .v is the list of their values
RECURSIVE Operands(_, _, _, _)
Operands(s, exprs, i, acc) ==
    IF i > Len(exprs) THEN Done(s, acc)
    ELSE LET a == evaluate(s, exprs[i]) IN
         IF a.sig # "ok" THEN a ELSE Operands(a.s, exprs, i + 1, Append(acc, a.v))

\* C28: when a call expression raises "Can only call functions and
\* classes." or the arity error, the run ends with that report and with the
\* output, the frames, the functions, the classes and the instances that the
\* evaluation of the callee followed by the evaluation of every argument
\* from left to right leaves, starting from the state in which the call
\* expression was entered.
C28_ArgumentsBeforeChecks ==
    \A i \in Events("call_raised") :
        LET e == interp.trace[i]
            callee == evaluate(e.entry, e.expr.callee)
            arguments == Operands(callee.s, e.expr.arguments, 1, <<>>)
        IN /\ callee.sig = "ok" /\ arguments.sig = "ok"
           /\ Len(arguments.v) = Len(e.expr.arguments)
           /\ interp.out = arguments.s.out
           /\ interp.envs = arguments.s.envs
           /\ interp.functions = arguments.s.functions
           /\ interp.classes = arguments.s.classes
           /\ interp.instances = arguments.s.instances
           /\ pc \in {"exit", "done"}
           /\ \E j \in DOMAIN stderr :
                 /\ stderr[j].kind = "runtime"
                 /\ stderr[j].msg =
                       IF callee.v.t \notin {"fn", "class"}
                       THEN Msg("Can only call functions and classes.")
                       ELSE MsgCount("Expected {} arguments but got {}.",
                                     Len(Declared(callee.v)), Len(arguments.v))
           /\ callee.v.t \in {"fn", "class"} => Len(Declared(callee.v)) # Len(arguments.v)

\* miscount_program has run: the callee p(0) printed 0, the arguments p(1)
\* and p(2) printed 1 and 2, and then the call of p with two arguments raised
C28_Witness ==
    /\ source = miscount_program /\ pc = "exit"
    /\ interp.out = <<Num(0, 1), Num(1, 1), Num(2, 1)>>
    /\ Events("call_raised") # {}
    /\ \E j \in DOMAIN stderr :
          stderr[j].msg = MsgCount("Expected {} arguments but got {}.", 1, 2)

\* C29: a class declaration whose superclass expression has a value that is
\* not a class raises "Superclass must be a class." with the interpreter as
\* it was when the declaration was entered: the same frames with the same
\* names in them (the class name is not defined, no frame of `super` is
\* added), the same current environment, no function and no class created;
\* and the run ends with that report and with those frames.
C29_NothingBoundOnBadSuperclass ==
    /\ \A i \in Events("class_raised") :
          LET e == interp.trace[i]
              superclass == evaluate(e.entry, e.stmt.superclass)
          IN /\ superclass.sig = "ok" /\ superclass.v.t # "class"
             /\ e.at.envs = e.entry.envs
             /\ e.at.environment = e.entry.environment
             /\ e.at.functions = e.entry.functions
             /\ e.at.classes = e.entry.classes
             /\ interp.envs = e.entry.envs
             /\ interp.classes = e.entry.classes
             /\ \A n \in DOMAIN interp.envs :
                   SUPER \in DOMAIN interp.envs[n].values
                      => SUPER \in DOMAIN e.entry.envs[n].values
             /\ \E j \in DOMAIN stderr :
                   /\ stderr[j].kind = "runtime"
                   /\ stderr[j].msg = Msg("Superclass must be a class.")
    /\ \A j \in DOMAIN stderr :
          stderr[j].msg = Msg("Superclass must be a class.") => Events("class_raised") # {}

\* superclass_program has run: `class B < A` stood in a block with A = 1,
\* the run ended with the report, and neither B nor super is a name of the
\* frame of the block or of the globals
C29_Witness ==
    /\ source = superclass_program /\ pc = "exit"
    /\ Events("class_raised") # {}
    /\ Len(interp.envs) = 2
    /\ \A n \in DOMAIN interp.envs :
          DOMAIN interp.envs[n].values \cap {<<"B">>, SUPER} = {}
    /\ <<"A">> \in DOMAIN interp.envs[GLOBALS].values
    /\ interp.environment = GLOBALS
    /\ interp.out = <<>>

\* what `print <left> <operator> (a = <right>); print a;` prints when a is 9
\* before: the left value and 9 when the left operand decides, and twice the
\* right value otherwise
LogicalOutput(left, operator, right) ==
    LET falsy == OperandValues[left] \in {Nil, Bool(FALSE), Num(0, 1), Str(<<>>)}
        decided == IF operator = "or" THEN ~falsy ELSE falsy
    IN IF decided THEN <<OperandValues[left], Num(9, 1)>>
       ELSE <<OperandValues[right], OperandValues[right]>>

\* C30 (under ValueSpec): `or` with a truthy left operand and `and` with a
\* falsy left operand yield the value of the left operand and do not
\* evaluate the right operand (the assignment in it does not happen);
\* otherwise they evaluate the right operand and yield its value; what is
\* yielded is the value of the operand, of whatever type, not a boolean.
C30_ShortCircuit ==
    \A l \in DOMAIN OperandTexts, o \in DOMAIN LogicalTexts, r \in DOMAIN OperandTexts :
        (source = LogicalSource(l, o, r) /\ pc = "done")
            => /\ stderr = <<>> /\ exit_code = 0
               /\ interp.out = LogicalOutput(l, o, r)

\* `print "a" or (a = 2); print a;` has printed a and 9, or
\* `print "" or (a = f); print a;` has printed the function twice
C30_Witness ==
    \/ /\ \E l, r \in DOMAIN OperandTexts :
            /\ OperandValues[l] = Str(<<"a">>) /\ OperandValues[r] = Num(2, 1)
            /\ source = LogicalSource(l, "or", r)
       /\ pc = "done" /\ interp.out = <<Str(<<"a">>), Num(9, 1)>>
    \/ /\ \E l, r \in DOMAIN OperandTexts :
            /\ OperandValues[l] = Str(<<>>) /\ OperandValues[r] = FnVal(1)
            /\ source = LogicalSource(l, "or", r)
       /\ pc = "done" /\ interp.out = <<FnVal(1), FnVal(1)>>
=============================================================================
